---- MODULE Spec2Model ----
(***************************************************************************)
(* The signaling relay of internal/core/rtc: RTCService, its room table,   *)
(* the participants of each room and the broadcast pass of SignalMessage.  *)
(* Every method runs under the service's RWMutex from its first to its     *)
(* last statement, so under Spec one step is one whole call.  The          *)
(* variables call, ret and writes record the last call, what it returned   *)
(* and the WriteMessage invocations it made; prevRet is what the call      *)
(* before it returned, when the last call repeated that call.  Under       *)
(* SpecConc goroutines call the service concurrently and a step is the     *)
(* acquisition of the mutex, the work done while holding it, one write of  *)
(* the broadcast pass, or the release.                                     *)
(***************************************************************************)
EXTENDS Integers, Sequences, FiniteSets, TLC

VARIABLES Rooms, heap, call, ret, writes, prevRet

\* the goroutines that call the service concurrently (SpecConc): what each
\* runs, where it is, the RWMutex, the locals of its call, what its calls
\* returned, the writes in progress, what each connection has carried and the
\* frame its handler wrote to it before closing it
VARIABLES prog, at, pc, mu, loc, rets, inflight, wire, final

concVars == <<prog, at, pc, mu, loc, rets, inflight, wire, final>>

vars == <<Rooms, heap, call, ret, writes, prevRet, concVars>>

----------------------------------------------------------------------------
(* Inputs and bounds *)

RoomIDs == {"r1", "r2"}

UserIDs == {"a", "b", "c"}

\* the connections a caller can hand to JoinRoom, besides the nil pointer
Conns == {"c1", "c2", "c3"}

\* payloads: the empty frame and a non-empty one
Messages == {<<>>, <<104, 105>>}

\* at most this many participant entries in the whole table
MaxMembers == 3

----------------------------------------------------------------------------
(* Values *)

NilConn == "nil"

\* the nil *Room; rooms that exist are positive addresses into heap
NilRoom == 0

NilErr == [format |-> "nil"]

TextMessage == "websocket.TextMessage"

EmptyMap == [k \in {} |-> k]

MapPut(m, key, value) ==
    [k \in (DOMAIN m) \cup {key} |-> IF k = key THEN value ELSE m[k]]

MapDelete(m, key) ==
    [k \in (DOMAIN m) \ {key} |-> m[k]]

Room(roomID) == [ID |-> roomID, Users |-> EmptyMap]

User(userID, conn) == [ID |-> userID, Conn |-> conn]

ErrRoomAlreadyExists(roomID) ==
    [format |-> "room %s already exists", roomID |-> roomID]

ErrRoomNotFound(roomID) ==
    [format |-> "room %s not found", roomID |-> roomID]

ErrUserAlreadyInRoom(userID, roomID) ==
    [format |-> "user %s already in room %s", userID |-> userID, roomID |-> roomID]

ErrUserNotInRoom(userID, roomID) ==
    [format |-> "user %s not in room %s", userID |-> userID, roomID |-> roomID]

ErrSend(userID, roomID, err) ==
    [format |-> "failed to send message to user %s in room %s: %w",
     userID |-> userID, roomID |-> roomID, err |-> err]

ErrBroadcast(sendErrors) ==
    [format |-> "errors during SignalMessage broadcast: %v", sendErrors |-> sendErrors]

\* the transport's own error of a failed write on conn
ErrWrite(conn) == [format |-> "write failed", conn |-> conn]

----------------------------------------------------------------------------
(* The table *)

\* the record of a call: the method and its arguments (NoUser, NilConn and the
\* empty payload where the method has no such argument)
NoUser == ""

Call(op, roomID, userID, conn, message) ==
    [op |-> op, roomID |-> roomID, userID |-> userID, conn |-> conn, message |-> message]

NoCall == Call("none", "", NoUser, NilConn, <<>>)

NoResult == [room |-> NilRoom, err |-> NilErr]

\* prevRet when the last call did not repeat the call before it
NoPrev == [room |-> NilRoom, err |-> [format |-> "none"]]

\* the participant map of a registered room
UsersOf(roomID) == heap[Rooms[roomID]].Users

TotalMembers ==
    LET RECURSIVE Sum(_)
        Sum(S) == IF S = {} THEN 0
                  ELSE LET r == CHOOSE x \in S : TRUE
                       IN Cardinality(DOMAIN UsersOf(r)) + Sum(S \ {r})
    IN Sum(DOMAIN Rooms)

Goroutines == {"g1", "g2", "g3"}

NoGoroutine == ""

\* the locals of a SignalMessage call: the entries the loop has still to
\* visit, the errors collected, and what the call is about to return
NoLocals == [todo |-> {}, sendErrors |-> <<>>, ret |-> NoResult, raced |-> FALSE]

\* a connection its handler has not closed
NoFrame == [messageType |-> "none", data |-> <<>>]

\* no goroutine runs
NoGoroutines ==
    /\ prog = [g \in Goroutines |-> [kind |-> "caller", calls |-> <<>>, frames |-> <<>>]]
    /\ at = [g \in Goroutines |-> 1]
    /\ pc = [g \in Goroutines |-> "done"]
    /\ mu = [w |-> NoGoroutine, r |-> {}]
    /\ loc = [g \in Goroutines |-> NoLocals]
    /\ rets = [g \in Goroutines |-> <<>>]
    /\ inflight = {}
    /\ wire = [conn \in Conns |-> <<>>]
    /\ final = [conn \in Conns |-> NoFrame]

Init ==
    /\ Rooms = EmptyMap
    /\ heap = <<>>
    /\ call = NoCall
    /\ ret = NoResult
    /\ writes = <<>>
    /\ prevRet = NoPrev
    /\ NoGoroutines

\* CreateRoom without the test for an existing room: the new room replaces it
CreateRoomOverwrites(roomID) ==
    /\ call' = Call("CreateRoom", roomID, NoUser, NilConn, <<>>)
    /\ writes' = <<>>
    /\ LET room == Len(heap) + 1
       IN /\ heap' = Append(heap, Room(roomID))
          /\ Rooms' = MapPut(Rooms, roomID, room)
          /\ ret' = [room |-> room, err |-> NilErr]

\* CreateRoom emptying the existing room before it reports the error
CreateRoomResets(roomID) ==
    /\ call' = Call("CreateRoom", roomID, NoUser, NilConn, <<>>)
    /\ writes' = <<>>
    /\ IF roomID \in DOMAIN Rooms
       THEN /\ ret' = [room |-> NilRoom, err |-> ErrRoomAlreadyExists(roomID)]
            /\ heap' = [heap EXCEPT ![Rooms[roomID]].Users = EmptyMap]
            /\ UNCHANGED Rooms
       ELSE LET room == Len(heap) + 1
            IN /\ heap' = Append(heap, Room(roomID))
               /\ Rooms' = MapPut(Rooms, roomID, room)
               /\ ret' = [room |-> room, err |-> NilErr]

CreateRoom(roomID) ==
    /\ call' = Call("CreateRoom", roomID, NoUser, NilConn, <<>>)
    /\ writes' = <<>>
    /\ IF roomID \in DOMAIN Rooms
       THEN /\ ret' = [room |-> NilRoom, err |-> ErrRoomAlreadyExists(roomID)]
            /\ UNCHANGED <<Rooms, heap>>
       ELSE LET room == Len(heap) + 1
            IN /\ heap' = Append(heap, Room(roomID))
               /\ Rooms' = MapPut(Rooms, roomID, room)
               /\ ret' = [room |-> room, err |-> NilErr]

\* JoinRoom creating the room it does not find
JoinRoomCreates(roomID, userID, conn) ==
    /\ call' = Call("JoinRoom", roomID, userID, conn, <<>>)
    /\ writes' = <<>>
    /\ IF roomID \notin DOMAIN Rooms
       THEN LET room == Len(heap) + 1
            IN /\ heap' = Append(heap, [ID |-> roomID,
                                        Users |-> MapPut(EmptyMap, userID, User(userID, conn))])
               /\ Rooms' = MapPut(Rooms, roomID, room)
               /\ ret' = [room |-> room, err |-> NilErr]
       ELSE LET room == Rooms[roomID]
            IN IF userID \in DOMAIN heap[room].Users
               THEN /\ ret' = [room |-> NilRoom, err |-> ErrUserAlreadyInRoom(userID, roomID)]
                    /\ UNCHANGED <<Rooms, heap>>
               ELSE /\ heap' = [heap EXCEPT ![room].Users = MapPut(@, userID, User(userID, conn))]
                    /\ ret' = [room |-> room, err |-> NilErr]
                    /\ UNCHANGED Rooms

\* JoinRoom storing the entry without the connection it was given
JoinRoomDropsConn(roomID, userID, conn) ==
    /\ call' = Call("JoinRoom", roomID, userID, conn, <<>>)
    /\ writes' = <<>>
    /\ IF roomID \notin DOMAIN Rooms
       THEN /\ ret' = [room |-> NilRoom, err |-> ErrRoomNotFound(roomID)]
            /\ UNCHANGED <<Rooms, heap>>
       ELSE LET room == Rooms[roomID]
            IN IF userID \in DOMAIN heap[room].Users
               THEN /\ ret' = [room |-> NilRoom, err |-> ErrUserAlreadyInRoom(userID, roomID)]
                    /\ UNCHANGED <<Rooms, heap>>
               ELSE /\ heap' = [heap EXCEPT ![room].Users = MapPut(@, userID, User(userID, NilConn))]
                    /\ ret' = [room |-> room, err |-> NilErr]
                    /\ UNCHANGED Rooms

\* JoinRoom without the test for an existing entry: the new entry replaces it
JoinRoomOverwrites(roomID, userID, conn) ==
    /\ call' = Call("JoinRoom", roomID, userID, conn, <<>>)
    /\ writes' = <<>>
    /\ IF roomID \notin DOMAIN Rooms
       THEN /\ ret' = [room |-> NilRoom, err |-> ErrRoomNotFound(roomID)]
            /\ UNCHANGED <<Rooms, heap>>
       ELSE LET room == Rooms[roomID]
            IN /\ heap' = [heap EXCEPT ![room].Users = MapPut(@, userID, User(userID, conn))]
               /\ ret' = [room |-> room, err |-> NilErr]
               /\ UNCHANGED Rooms

\* JoinRoom putting the new connection into the entry it finds and rejects
JoinRoomReplacesConn(roomID, userID, conn) ==
    /\ call' = Call("JoinRoom", roomID, userID, conn, <<>>)
    /\ writes' = <<>>
    /\ IF roomID \notin DOMAIN Rooms
       THEN /\ ret' = [room |-> NilRoom, err |-> ErrRoomNotFound(roomID)]
            /\ UNCHANGED <<Rooms, heap>>
       ELSE LET room == Rooms[roomID]
            IN IF userID \in DOMAIN heap[room].Users
               THEN /\ ret' = [room |-> NilRoom, err |-> ErrUserAlreadyInRoom(userID, roomID)]
                    /\ heap' = [heap EXCEPT ![room].Users[userID].Conn = conn]
                    /\ UNCHANGED Rooms
               ELSE /\ heap' = [heap EXCEPT ![room].Users = MapPut(@, userID, User(userID, conn))]
                    /\ ret' = [room |-> room, err |-> NilErr]
                    /\ UNCHANGED Rooms

\* JoinRoom refusing a participant ID that is in any room of the table
JoinRoomExclusive(roomID, userID, conn) ==
    /\ call' = Call("JoinRoom", roomID, userID, conn, <<>>)
    /\ writes' = <<>>
    /\ IF roomID \notin DOMAIN Rooms
       THEN /\ ret' = [room |-> NilRoom, err |-> ErrRoomNotFound(roomID)]
            /\ UNCHANGED <<Rooms, heap>>
       ELSE LET room == Rooms[roomID]
            IN IF \E r \in DOMAIN Rooms : userID \in DOMAIN heap[Rooms[r]].Users
               THEN /\ ret' = [room |-> NilRoom, err |-> ErrUserAlreadyInRoom(userID, roomID)]
                    /\ UNCHANGED <<Rooms, heap>>
               ELSE /\ heap' = [heap EXCEPT ![room].Users = MapPut(@, userID, User(userID, conn))]
                    /\ ret' = [room |-> room, err |-> NilErr]
                    /\ UNCHANGED Rooms

JoinRoom(roomID, userID, conn) ==
    /\ call' = Call("JoinRoom", roomID, userID, conn, <<>>)
    /\ writes' = <<>>
    /\ IF roomID \notin DOMAIN Rooms
       THEN /\ ret' = [room |-> NilRoom, err |-> ErrRoomNotFound(roomID)]
            /\ UNCHANGED <<Rooms, heap>>
       ELSE LET room == Rooms[roomID]
            IN IF userID \in DOMAIN heap[room].Users
               THEN /\ ret' = [room |-> NilRoom, err |-> ErrUserAlreadyInRoom(userID, roomID)]
                    /\ UNCHANGED <<Rooms, heap>>
               ELSE /\ heap' = [heap EXCEPT ![room].Users = MapPut(@, userID, User(userID, conn))]
                    /\ ret' = [room |-> room, err |-> NilErr]
                    /\ UNCHANGED Rooms

\* LeaveRoom unregistering the room together with the entry
LeaveRoomDropsRoom(roomID, userID) ==
    /\ call' = Call("LeaveRoom", roomID, userID, NilConn, <<>>)
    /\ writes' = <<>>
    /\ IF roomID \notin DOMAIN Rooms
       THEN /\ ret' = [room |-> NilRoom, err |-> ErrRoomNotFound(roomID)]
            /\ UNCHANGED <<Rooms, heap>>
       ELSE LET room == Rooms[roomID]
            IN IF userID \notin DOMAIN heap[room].Users
               THEN /\ ret' = [room |-> NilRoom, err |-> ErrUserNotInRoom(userID, roomID)]
                    /\ UNCHANGED <<Rooms, heap>>
               ELSE /\ heap' = [heap EXCEPT ![room].Users = MapDelete(@, userID)]
                    /\ Rooms' = MapDelete(Rooms, roomID)
                    /\ ret' = [room |-> NilRoom, err |-> NilErr]

\* LeaveRoom succeeding as a no-op for a participant that is not in the room
LeaveRoomNoop(roomID, userID) ==
    /\ call' = Call("LeaveRoom", roomID, userID, NilConn, <<>>)
    /\ writes' = <<>>
    /\ IF roomID \notin DOMAIN Rooms
       THEN /\ ret' = [room |-> NilRoom, err |-> ErrRoomNotFound(roomID)]
            /\ UNCHANGED <<Rooms, heap>>
       ELSE LET room == Rooms[roomID]
            IN /\ heap' = [heap EXCEPT ![room].Users = MapDelete(@, userID)]
               /\ ret' = [room |-> NilRoom, err |-> NilErr]
               /\ UNCHANGED Rooms

\* LeaveRoom unregistering the room when its last participant leaves
LeaveRoomCollectsEmpty(roomID, userID) ==
    /\ call' = Call("LeaveRoom", roomID, userID, NilConn, <<>>)
    /\ writes' = <<>>
    /\ IF roomID \notin DOMAIN Rooms
       THEN /\ ret' = [room |-> NilRoom, err |-> ErrRoomNotFound(roomID)]
            /\ UNCHANGED <<Rooms, heap>>
       ELSE LET room == Rooms[roomID]
            IN IF userID \notin DOMAIN heap[room].Users
               THEN /\ ret' = [room |-> NilRoom, err |-> ErrUserNotInRoom(userID, roomID)]
                    /\ UNCHANGED <<Rooms, heap>>
               ELSE /\ heap' = [heap EXCEPT ![room].Users = MapDelete(@, userID)]
                    /\ Rooms' = IF DOMAIN heap[room].Users = {userID}
                                THEN MapDelete(Rooms, roomID)
                                ELSE Rooms
                    /\ ret' = [room |-> NilRoom, err |-> NilErr]

\* LeaveRoom removing every entry of the room
LeaveRoomClears(roomID, userID) ==
    /\ call' = Call("LeaveRoom", roomID, userID, NilConn, <<>>)
    /\ writes' = <<>>
    /\ IF roomID \notin DOMAIN Rooms
       THEN /\ ret' = [room |-> NilRoom, err |-> ErrRoomNotFound(roomID)]
            /\ UNCHANGED <<Rooms, heap>>
       ELSE LET room == Rooms[roomID]
            IN IF userID \notin DOMAIN heap[room].Users
               THEN /\ ret' = [room |-> NilRoom, err |-> ErrUserNotInRoom(userID, roomID)]
                    /\ UNCHANGED <<Rooms, heap>>
               ELSE /\ heap' = [heap EXCEPT ![room].Users = EmptyMap]
                    /\ ret' = [room |-> NilRoom, err |-> NilErr]
                    /\ UNCHANGED Rooms

LeaveRoom(roomID, userID) ==
    /\ call' = Call("LeaveRoom", roomID, userID, NilConn, <<>>)
    /\ writes' = <<>>
    /\ IF roomID \notin DOMAIN Rooms
       THEN /\ ret' = [room |-> NilRoom, err |-> ErrRoomNotFound(roomID)]
            /\ UNCHANGED <<Rooms, heap>>
       ELSE LET room == Rooms[roomID]
            IN IF userID \notin DOMAIN heap[room].Users
               THEN /\ ret' = [room |-> NilRoom, err |-> ErrUserNotInRoom(userID, roomID)]
                    /\ UNCHANGED <<Rooms, heap>>
               ELSE /\ heap' = [heap EXCEPT ![room].Users = MapDelete(@, userID)]
                    /\ ret' = [room |-> NilRoom, err |-> NilErr]
                    /\ UNCHANGED Rooms

\* GetRoom returning a copy of the room instead of the room of the table
GetRoomCopies(roomID) ==
    /\ call' = Call("GetRoom", roomID, NoUser, NilConn, <<>>)
    /\ writes' = <<>>
    /\ UNCHANGED Rooms
    /\ IF roomID \notin DOMAIN Rooms
       THEN /\ ret' = [room |-> NilRoom, err |-> ErrRoomNotFound(roomID)]
            /\ UNCHANGED heap
       ELSE /\ heap' = Append(heap, heap[Rooms[roomID]])
            /\ ret' = [room |-> Len(heap) + 1, err |-> NilErr]

GetRoom(roomID) ==
    /\ call' = Call("GetRoom", roomID, NoUser, NilConn, <<>>)
    /\ writes' = <<>>
    /\ UNCHANGED <<Rooms, heap>>
    /\ IF roomID \notin DOMAIN Rooms
       THEN ret' = [room |-> NilRoom, err |-> ErrRoomNotFound(roomID)]
       ELSE ret' = [room |-> Rooms[roomID], err |-> NilErr]

----------------------------------------------------------------------------
(* SignalMessage *)

\* user.Conn.WriteMessage(websocket.TextMessage, message): the transport
\* decides whether the write fails
WriteMessage(conn, fails) ==
    IF fails THEN ErrWrite(conn) ELSE NilErr

\* IsRecipient without the test that spares the sender
IsRecipientEcho(userID, user, senderID) ==
    user.Conn # NilConn

\* IsRecipient without the test for a nil connection
IsRecipientNil(userID, user, senderID) ==
    userID # senderID

\* the two conditions under which the loop body writes to an entry
IsRecipient(userID, user, senderID) ==
    /\ userID # senderID
    /\ user.Conn # NilConn

\* the orders in which "for userID, user := range room.Users" can visit the
\* entries: Go leaves the iteration order of a map unspecified
RangeOrders(users) ==
    LET n == Cardinality(DOMAIN users)
    IN {order \in [1..n -> DOMAIN users] :
            \A i, j \in 1..n : order[i] = order[j] => i = j}

\* SendLoop leaving the loop at the first failed write
RECURSIVE SendLoopAbort(_, _, _, _, _, _)
SendLoopAbort(order, users, roomID, senderID, message, failing) ==
    IF order = <<>>
    THEN [writes |-> <<>>, sendErrors |-> <<>>]
    ELSE LET userID == Head(order)
             user == users[userID]
         IN IF IsRecipient(userID, user, senderID)
            THEN LET err == WriteMessage(user.Conn, userID \in failing)
                     w == [userID |-> userID, Conn |-> user.Conn,
                           messageType |-> TextMessage, data |-> message, err |-> err]
                 IN IF err # NilErr
                    THEN [writes |-> <<w>>,
                          sendErrors |-> <<ErrSend(userID, roomID, err)>>]
                    ELSE LET rest == SendLoopAbort(Tail(order), users, roomID,
                                                   senderID, message, failing)
                         IN [writes |-> <<w>> \o rest.writes,
                             sendErrors |-> rest.sendErrors]
            ELSE SendLoopAbort(Tail(order), users, roomID, senderID, message, failing)

\* SendLoop writing a second time to an entry whose write failed
RECURSIVE SendLoopRetries(_, _, _, _, _, _)
SendLoopRetries(order, users, roomID, senderID, message, failing) ==
    IF order = <<>>
    THEN [writes |-> <<>>, sendErrors |-> <<>>]
    ELSE LET userID == Head(order)
             user == users[userID]
             rest == SendLoopRetries(Tail(order), users, roomID, senderID, message, failing)
         IN IF IsRecipient(userID, user, senderID)
            THEN LET err == WriteMessage(user.Conn, userID \in failing)
                     w == [userID |-> userID, Conn |-> user.Conn,
                           messageType |-> TextMessage, data |-> message, err |-> err]
                 IN [writes |-> (IF err # NilErr THEN <<w, w>> ELSE <<w>>) \o rest.writes,
                     sendErrors |-> IF err # NilErr
                                    THEN <<ErrSend(userID, roomID, err)>> \o rest.sendErrors
                                    ELSE rest.sendErrors]
            ELSE rest

\* the loop over room.Users, visiting the entries in the given order; failing
\* is the set of entries on whose connection a write of this pass would fail;
\* the result carries the WriteMessage invocations made and the errors
\* collected
RECURSIVE SendLoop(_, _, _, _, _, _)
SendLoop(order, users, roomID, senderID, message, failing) ==
    IF order = <<>>
    THEN [writes |-> <<>>, sendErrors |-> <<>>]
    ELSE LET userID == Head(order)
             user == users[userID]
             rest == SendLoop(Tail(order), users, roomID, senderID, message, failing)
         IN IF IsRecipient(userID, user, senderID)
            THEN LET err == WriteMessage(user.Conn, userID \in failing)
                     w == [userID |-> userID, Conn |-> user.Conn,
                           messageType |-> TextMessage, data |-> message, err |-> err]
                 IN [writes |-> <<w>> \o rest.writes,
                     sendErrors |-> IF err # NilErr
                                    THEN <<ErrSend(userID, roomID, err)>> \o rest.sendErrors
                                    ELSE rest.sendErrors]
            ELSE rest

\* BroadcastResult reporting the first collected error only
BroadcastFirst(sendErrors) ==
    IF Len(sendErrors) > 0 THEN ErrBroadcast(<<Head(sendErrors)>>) ELSE NilErr

\* what SignalMessage returns after the pass
BroadcastResult(sendErrors) ==
    IF Len(sendErrors) > 0 THEN ErrBroadcast(sendErrors) ELSE NilErr

\* SignalMessage removing from the room the entries whose write failed
SignalMessageEvicts(roomID, senderID, message, order, failing) ==
    /\ call' = Call("SignalMessage", roomID, senderID, NilConn, message)
    /\ UNCHANGED Rooms
    /\ IF roomID \notin DOMAIN Rooms
       THEN /\ ret' = [room |-> NilRoom, err |-> ErrRoomNotFound(roomID)]
            /\ writes' = <<>>
            /\ UNCHANGED heap
       ELSE LET room == heap[Rooms[roomID]]
                pass == SendLoop(order, room.Users, roomID, senderID, message, failing)
                bad == {pass.sendErrors[i].userID : i \in DOMAIN pass.sendErrors}
            IN /\ writes' = pass.writes
               /\ ret' = [room |-> NilRoom, err |-> BroadcastResult(pass.sendErrors)]
               /\ heap' = [heap EXCEPT ![Rooms[roomID]].Users =
                                [k \in (DOMAIN @) \ bad |-> @[k]]]

\* SignalMessage returning no error when it does not find the room
SignalMessageIgnoresMissing(roomID, senderID, message, order, failing) ==
    /\ call' = Call("SignalMessage", roomID, senderID, NilConn, message)
    /\ UNCHANGED <<Rooms, heap>>
    /\ IF roomID \notin DOMAIN Rooms
       THEN /\ ret' = [room |-> NilRoom, err |-> NilErr]
            /\ writes' = <<>>
       ELSE LET room == heap[Rooms[roomID]]
                pass == SendLoop(order, room.Users, roomID, senderID, message, failing)
            IN /\ writes' = pass.writes
               /\ ret' = [room |-> NilRoom, err |-> BroadcastResult(pass.sendErrors)]

\* SignalMessage rejecting a sender that is no participant of the room
SignalMessageChecksSender(roomID, senderID, message, order, failing) ==
    /\ call' = Call("SignalMessage", roomID, senderID, NilConn, message)
    /\ UNCHANGED <<Rooms, heap>>
    /\ IF roomID \notin DOMAIN Rooms
       THEN /\ ret' = [room |-> NilRoom, err |-> ErrRoomNotFound(roomID)]
            /\ writes' = <<>>
       ELSE LET room == heap[Rooms[roomID]]
                pass == SendLoop(order, room.Users, roomID, senderID, message, failing)
            IN IF senderID \notin DOMAIN room.Users
               THEN /\ ret' = [room |-> NilRoom, err |-> ErrUserNotInRoom(senderID, roomID)]
                    /\ writes' = <<>>
               ELSE /\ writes' = pass.writes
                    /\ ret' = [room |-> NilRoom, err |-> BroadcastResult(pass.sendErrors)]

\* SignalMessage finding the connection of a recipient by its ID in the rooms
\* of the service, not in the room of the call
SignalMessageByID(roomID, senderID, message, order, failing) ==
    /\ call' = Call("SignalMessage", roomID, senderID, NilConn, message)
    /\ UNCHANGED <<Rooms, heap>>
    /\ IF roomID \notin DOMAIN Rooms
       THEN /\ ret' = [room |-> NilRoom, err |-> ErrRoomNotFound(roomID)]
            /\ writes' = <<>>
       ELSE LET room == heap[Rooms[roomID]]
                found == [userID \in DOMAIN room.Users |->
                             UsersOf(CHOOSE other \in DOMAIN Rooms :
                                         /\ userID \in DOMAIN UsersOf(other)
                                         /\ \A r \in DOMAIN Rooms :
                                                userID \in DOMAIN UsersOf(r)
                                                => Rooms[other] >= Rooms[r])[userID]]
                pass == SendLoop(order, found, roomID, senderID, message, failing)
            IN /\ writes' = pass.writes
               /\ ret' = [room |-> NilRoom, err |-> BroadcastResult(pass.sendErrors)]

SignalMessage(roomID, senderID, message, order, failing) ==
    /\ call' = Call("SignalMessage", roomID, senderID, NilConn, message)
    /\ UNCHANGED <<Rooms, heap>>
    /\ IF roomID \notin DOMAIN Rooms
       THEN /\ ret' = [room |-> NilRoom, err |-> ErrRoomNotFound(roomID)]
            /\ writes' = <<>>
       ELSE LET room == heap[Rooms[roomID]]
                pass == SendLoop(order, room.Users, roomID, senderID, message, failing)
            IN /\ writes' = pass.writes
               /\ ret' = [room |-> NilRoom, err |-> BroadcastResult(pass.sendErrors)]

----------------------------------------------------------------------------
(* The callers *)

\* a JoinRoom that would add an entry is called only below MaxMembers
JoinFits(roomID, userID) ==
    IF roomID \notin DOMAIN Rooms THEN TRUE
    ELSE IF userID \in DOMAIN UsersOf(roomID) THEN TRUE
    ELSE TotalMembers < MaxMembers

\* the iteration orders of a SignalMessage call on roomID
OrdersOf(roomID) ==
    IF roomID \in DOMAIN Rooms THEN RangeOrders(UsersOf(roomID)) ELSE {<<>>}

\* the entries of roomID whose connection may refuse a write
MayFail(roomID) ==
    IF roomID \in DOMAIN Rooms THEN DOMAIN UsersOf(roomID) ELSE {}

\* the caller is done with the result of its last call
Return ==
    /\ call # NoCall
    /\ call' = NoCall
    /\ ret' = NoResult
    /\ writes' = <<>>
    /\ prevRet' = NoPrev
    /\ UNCHANGED <<Rooms, heap, concVars>>

\* a call is made by a caller that holds no result, or by the caller of the
\* last call, making the same call on the same room and participant a second
\* time
Ready(op, roomID, userID) ==
    /\ \/ call = NoCall
       \/ /\ prevRet = NoPrev
          /\ call.op = op
          /\ call.roomID = roomID
          /\ call.userID = userID
    /\ prevRet' = IF call = NoCall THEN NoPrev ELSE ret
    /\ UNCHANGED concVars

\* a connection is handed to JoinRoom once: every accepted websocket
\* connection joins with its own *websocket.Conn, the callers without a
\* connection join with nil
ConnFresh(conn) ==
    \/ conn = NilConn
    \/ \A roomID \in DOMAIN Rooms : \A userID \in DOMAIN UsersOf(roomID) :
           UsersOf(roomID)[userID].Conn # conn

Next ==
    \/ \E roomID \in RoomIDs :
          Ready("CreateRoom", roomID, NoUser) /\ CreateRoom(roomID)
    \/ \E roomID \in RoomIDs, userID \in UserIDs, conn \in Conns \cup {NilConn} :
          /\ Ready("JoinRoom", roomID, userID)
          /\ ConnFresh(conn)
          /\ JoinFits(roomID, userID)
          /\ JoinRoom(roomID, userID, conn)
    \/ \E roomID \in RoomIDs, userID \in UserIDs :
          Ready("LeaveRoom", roomID, userID) /\ LeaveRoom(roomID, userID)
    \/ \E roomID \in RoomIDs :
          Ready("GetRoom", roomID, NoUser) /\ GetRoom(roomID)
    \/ \E roomID \in RoomIDs, senderID \in UserIDs, message \in Messages :
          /\ Ready("SignalMessage", roomID, senderID)
          /\ \E order \in OrdersOf(roomID), failing \in SUBSET MayFail(roomID) :
                SignalMessage(roomID, senderID, message, order, failing)
    \/ Return

Spec == Init /\ [][Next]_vars

----------------------------------------------------------------------------
(* The REST handlers *)

StatusOK == 200

StatusCreated == 201

StatusBadRequest == 400

StatusNotFound == 404

StatusInternalServerError == 500

\* err.Error(): the text of an error the handlers can be returned, as the
\* pieces fmt.Errorf puts together
Error(err) ==
    CASE err.format = "room %s already exists" ->
             <<"room ", err.roomID, " already exists">>
      [] err.format = "room %s not found" ->
             <<"room ", err.roomID, " not found">>
      [] err.format = "user %s already in room %s" ->
             <<"user ", err.userID, " already in room ", err.roomID>>
      [] err.format = "user %s not in room %s" ->
             <<"user ", err.userID, " not in room ", err.roomID>>

\* the status CreateRoomHandler answers when CreateRoom(roomID) returned err
CreateRoomHandler(roomID, err) ==
    IF err # NilErr THEN StatusInternalServerError ELSE StatusCreated

\* JoinRoomHandler answering not found to every error of JoinRoom
JoinRoomHandlerNotFound(roomID, userID, err) ==
    IF roomID = "" THEN StatusBadRequest
    ELSE IF userID = "" THEN StatusBadRequest
    ELSE IF err # NilErr THEN StatusNotFound
    ELSE StatusOK

\* the status JoinRoomHandler answers when JoinRoom(roomID, userID, nil)
\* returned err
JoinRoomHandler(roomID, userID, err) ==
    IF roomID = "" THEN StatusBadRequest
    ELSE IF userID = "" THEN StatusBadRequest
    ELSE IF err # NilErr
         THEN IF Error(err) = <<"room ", roomID, " not found">>
              THEN StatusNotFound
              ELSE StatusInternalServerError
    ELSE StatusOK

\* LeaveRoomHandler recognising only the error of a room that is not found
LeaveRoomHandlerRoomOnly(roomID, userID, err) ==
    IF roomID = "" THEN StatusBadRequest
    ELSE IF userID = "" THEN StatusBadRequest
    ELSE IF err # NilErr
         THEN IF Error(err) = <<"room ", roomID, " not found">>
              THEN StatusNotFound
              ELSE StatusInternalServerError
    ELSE StatusOK

\* the status LeaveRoomHandler answers when LeaveRoom(roomID, userID)
\* returned err
LeaveRoomHandler(roomID, userID, err) ==
    IF roomID = "" THEN StatusBadRequest
    ELSE IF userID = "" THEN StatusBadRequest
    ELSE IF err # NilErr
         THEN IF \/ Error(err) = <<"room ", roomID, " not found">>
                 \/ Error(err) = <<"user ", userID, " not in room ", roomID>>
              THEN StatusNotFound
              ELSE StatusInternalServerError
    ELSE StatusOK

\* the status GetRoomHandler answers when GetRoom(roomID) returned err
GetRoomHandler(roomID, err) ==
    IF roomID = "" THEN StatusBadRequest
    ELSE IF err # NilErr
         THEN IF Error(err) = <<"room ", roomID, " not found">>
              THEN StatusNotFound
              ELSE StatusInternalServerError
    ELSE StatusOK

\* the last call is one a REST handler makes: the handlers call every method
\* but SignalMessage, and JoinRoomHandler joins without a connection
ByRest(c) ==
    \/ c.op \in {"CreateRoom", "LeaveRoom", "GetRoom"}
    \/ c.op = "JoinRoom" /\ c.conn = NilConn

\* the status of the response to the request that made call c and was
\* returned r
Response(c, r) ==
    CASE c.op = "CreateRoom" -> CreateRoomHandler(c.roomID, r.err)
      [] c.op = "JoinRoom" -> JoinRoomHandler(c.roomID, c.userID, r.err)
      [] c.op = "LeaveRoom" -> LeaveRoomHandler(c.roomID, c.userID, r.err)
      [] c.op = "GetRoom" -> GetRoomHandler(c.roomID, r.err)

----------------------------------------------------------------------------
(* Concurrent callers *)

BinaryMessage == "websocket.BinaryMessage"

\* a frame a connection receives from its client
Frame(messageType, data) == [messageType |-> messageType, data |-> data]

\* a handler that returns without LeaveRoom when its read loop ends
HandlerCallsNoLeave(roomID, userID, conn, frames) ==
    <<Call("JoinRoom", roomID, userID, conn, <<>>)>>
    \o [i \in 1..Len(frames) |->
            Call("SignalMessage", roomID, userID, NilConn, frames[i].data)]

\* the calls of the handler of one accepted connection: JoinRoom with the
\* connection, SignalMessage with the payload of every frame it reads, and
\* LeaveRoom when the read loop ends
HandlerCalls(roomID, userID, conn, frames) ==
    <<Call("JoinRoom", roomID, userID, conn, <<>>)>>
    \o [i \in 1..Len(frames) |->
            Call("SignalMessage", roomID, userID, NilConn, frames[i].data)]
    \o <<Call("LeaveRoom", roomID, userID, NilConn, <<>>)>>

Handler(roomID, userID, conn, frames) ==
    [kind |-> "handler", calls |-> HandlerCalls(roomID, userID, conn, frames),
     frames |-> frames]

\* the goroutine of a GET request for a room, served by GetRoomHandler
GetRoomRequest(roomID) ==
    [kind |-> "rest", calls |-> <<Call("GetRoom", roomID, NoUser, NilConn, <<>>)>>,
     frames |-> <<>>]

\* a goroutine that makes the given calls one after the other
Caller(calls) == [kind |-> "caller", calls |-> calls, frames |-> <<>>]

\* the call a goroutine is making
CurCall(g) == prog[g].calls[at[g]]

\* JoinRoom taking the read lock
LockKindJoinShared(op) ==
    IF op \in {"CreateRoom", "LeaveRoom"} THEN "Lock" ELSE "RLock"

\* the lock each method takes
LockKind(op) ==
    IF op \in {"CreateRoom", "JoinRoom", "LeaveRoom"} THEN "Lock" ELSE "RLock"

\* a mutex whose Lock does not wait for the readers
CanAcquireIgnoresReaders(kind) == mu.w = NoGoroutine

\* sync.RWMutex: Lock waits until no goroutine holds the mutex, RLock until
\* no writer holds it
CanAcquire(kind) ==
    IF kind = "Lock"
    THEN mu.w = NoGoroutine /\ mu.r = {}
    ELSE mu.w = NoGoroutine

\* a Lock and an RLock that return at once, whoever holds the mutex
AcquireNoWait(g) ==
    /\ pc[g] = "call"
    /\ mu' = IF LockKind(CurCall(g).op) = "Lock"
             THEN [mu EXCEPT !.w = g]
             ELSE [mu EXCEPT !.r = @ \cup {g}]
    /\ pc' = [pc EXCEPT ![g] = "locked"]
    /\ UNCHANGED <<Rooms, heap, call, ret, writes, prevRet>>
    /\ UNCHANGED <<prog, at, loc, rets, inflight, wire, final>>

\* s.mu.Lock() or s.mu.RLock() returns
Acquire(g) ==
    /\ pc[g] = "call"
    /\ CanAcquire(LockKind(CurCall(g).op))
    /\ mu' = IF LockKind(CurCall(g).op) = "Lock"
             THEN [mu EXCEPT !.w = g]
             ELSE [mu EXCEPT !.r = @ \cup {g}]
    /\ pc' = [pc EXCEPT ![g] = "locked"]
    /\ UNCHANGED <<Rooms, heap, call, ret, writes, prevRet>>
    /\ UNCHANGED <<prog, at, loc, rets, inflight, wire, final>>

\* goroutine g is inside a method, between the acquisition of the mutex and
\* its release
InCS(g) == pc[g] \in {"locked", "loop", "writing", "unlock"}

\* the methods that write the table or the map of a room
Mutates(op) == op \in {"CreateRoom", "JoinRoom", "LeaveRoom"}

\* a data race: g accesses the table while another goroutine is inside a
\* method, and one of the two writes
Racing(g) ==
    \E h \in Goroutines \ {g} :
        InCS(h) /\ (Mutates(CurCall(g).op) \/ Mutates(CurCall(h).op))

\* an outcome of a data race on the map of a room: JoinRoom or LeaveRoom
\* returns as it does when it has written the map, and the write is lost
LostUpdate(g) ==
    /\ Racing(g)
    /\ CurCall(g).op \in {"JoinRoom", "LeaveRoom"}
    /\ CurCall(g).roomID \in DOMAIN Rooms
    /\ call' = CurCall(g)
    /\ ret' = [room |-> IF CurCall(g).op = "JoinRoom"
                        THEN Rooms[CurCall(g).roomID] ELSE NilRoom,
               err |-> NilErr]
    /\ writes' = <<>>
    /\ UNCHANGED <<Rooms, heap>>

\* GetRoomHandler is in its loop over room.Users, which it runs after GetRoom
\* has returned the room and released the mutex
Listing(g) == pc[g] = "listing"

\* the room GetRoom returned to the handler
Listed(g) == rets[g][1].room

\* the statements of CreateRoom, JoinRoom, LeaveRoom or GetRoom between the
\* acquisition of the mutex and the return; a write of the map that
\* GetRoomHandler is ranging over is a data race with that loop
Body(g) ==
    /\ pc[g] = "locked"
    /\ \/ CurCall(g).op = "CreateRoom" /\ CreateRoom(CurCall(g).roomID)
       \/ /\ CurCall(g).op = "JoinRoom"
          /\ JoinRoom(CurCall(g).roomID, CurCall(g).userID, CurCall(g).conn)
       \/ /\ CurCall(g).op = "LeaveRoom"
          /\ LeaveRoom(CurCall(g).roomID, CurCall(g).userID)
       \/ CurCall(g).op = "GetRoom" /\ GetRoom(CurCall(g).roomID)
       \/ LostUpdate(g)
    /\ loc' = [h \in Goroutines |->
                  IF h = g THEN [loc[g] EXCEPT !.ret = ret']
                  ELSE IF Listing(h) /\ heap'[Listed(h)] # heap[Listed(h)]
                       THEN [loc[h] EXCEPT !.raced = TRUE]
                       ELSE loc[h]]
    /\ pc' = [pc EXCEPT ![g] = "unlock"]
    /\ UNCHANGED <<prog, at, mu, rets, inflight, wire, prevRet, final>>

\* a SignalMessage that gives the mutex back once it has looked the room up
LookupReleases(g) ==
    /\ pc[g] = "locked"
    /\ CurCall(g).op = "SignalMessage"
    /\ IF CurCall(g).roomID \notin DOMAIN Rooms
       THEN /\ loc' = [loc EXCEPT ![g].ret =
                           [room |-> NilRoom, err |-> ErrRoomNotFound(CurCall(g).roomID)]]
            /\ pc' = [pc EXCEPT ![g] = "unlock"]
       ELSE /\ loc' = [loc EXCEPT ![g].todo = DOMAIN UsersOf(CurCall(g).roomID)]
            /\ pc' = [pc EXCEPT ![g] = "loop"]
    /\ mu' = [mu EXCEPT !.r = @ \ {g}]
    /\ UNCHANGED <<Rooms, heap, call, ret, writes, prevRet>>
    /\ UNCHANGED <<prog, at, rets, inflight, wire, final>>

\* SignalMessage looks the room up and starts the loop over its entries
Lookup(g) ==
    /\ pc[g] = "locked"
    /\ CurCall(g).op = "SignalMessage"
    /\ IF CurCall(g).roomID \notin DOMAIN Rooms
       THEN /\ loc' = [loc EXCEPT ![g].ret =
                           [room |-> NilRoom, err |-> ErrRoomNotFound(CurCall(g).roomID)]]
            /\ pc' = [pc EXCEPT ![g] = "unlock"]
       ELSE /\ loc' = [loc EXCEPT ![g].todo = DOMAIN UsersOf(CurCall(g).roomID)]
            /\ pc' = [pc EXCEPT ![g] = "loop"]
    /\ UNCHANGED <<Rooms, heap, call, ret, writes, prevRet>>
    /\ UNCHANGED <<prog, at, mu, rets, inflight, wire, final>>

\* a write that puts a tag in front of the payload
WriteForTagged(g, userID) ==
    [g |-> g, at |-> at[g], userID |-> userID,
     Conn |-> UsersOf(CurCall(g).roomID)[userID].Conn,
     messageType |-> TextMessage, data |-> <<0>> \o CurCall(g).message]

\* the write SignalMessage makes for entry userID
WriteFor(g, userID) ==
    [g |-> g, at |-> at[g], userID |-> userID,
     Conn |-> UsersOf(CurCall(g).roomID)[userID].Conn,
     messageType |-> TextMessage, data |-> CurCall(g).message]

\* a loop that hands the write to a goroutine of its own and goes on: the
\* frame reaches the connection before or after the frames handed over earlier
VisitAsync(g, userID) ==
    /\ pc[g] = "loop"
    /\ userID \in loc[g].todo
    /\ loc' = [loc EXCEPT ![g].todo = @ \ {userID}]
    /\ IF IsRecipient(userID, UsersOf(CurCall(g).roomID)[userID], CurCall(g).userID)
       THEN \E k \in 0..Len(wire[WriteFor(g, userID).Conn]) :
                wire' = [wire EXCEPT ![WriteFor(g, userID).Conn] =
                             SubSeq(@, 1, k) \o <<WriteFor(g, userID)>>
                             \o SubSeq(@, k + 1, Len(@))]
       ELSE UNCHANGED wire
    /\ UNCHANGED <<Rooms, heap, call, ret, writes, prevRet>>
    /\ UNCHANGED <<prog, at, pc, mu, rets, inflight, final>>

\* a pass that gives the mutex back before it calls WriteMessage
VisitReleases(g, userID) ==
    /\ pc[g] = "loop"
    /\ userID \in loc[g].todo
    /\ IF IsRecipient(userID, UsersOf(CurCall(g).roomID)[userID], CurCall(g).userID)
       THEN /\ inflight' = inflight \cup {WriteFor(g, userID)}
            /\ pc' = [pc EXCEPT ![g] = "writing"]
            /\ mu' = [mu EXCEPT !.r = @ \ {g}]
            /\ UNCHANGED loc
       ELSE /\ loc' = [loc EXCEPT ![g].todo = @ \ {userID}]
            /\ UNCHANGED <<inflight, pc, mu>>
    /\ UNCHANGED <<Rooms, heap, call, ret, writes, prevRet>>
    /\ UNCHANGED <<prog, at, rets, wire, final>>

\* the loop comes to entry userID: it calls WriteMessage on the connection of
\* a recipient and passes over any other entry
Visit(g, userID) ==
    /\ pc[g] = "loop"
    /\ userID \in loc[g].todo
    /\ IF IsRecipient(userID, UsersOf(CurCall(g).roomID)[userID], CurCall(g).userID)
       THEN /\ inflight' = inflight \cup {WriteFor(g, userID)}
            /\ pc' = [pc EXCEPT ![g] = "writing"]
            /\ UNCHANGED loc
       ELSE /\ loc' = [loc EXCEPT ![g].todo = @ \ {userID}]
            /\ UNCHANGED <<inflight, pc>>
    /\ UNCHANGED <<Rooms, heap, call, ret, writes, prevRet>>
    /\ UNCHANGED <<prog, at, mu, rets, wire, final>>

\* WriteMessage returns: the frame is on the connection, or the write failed
\* and the loop appends the error
WriteReturn(g, w, fails) ==
    /\ pc[g] = "writing"
    /\ w \in inflight
    /\ w.g = g
    /\ inflight' = inflight \ {w}
    /\ wire' = IF fails THEN wire
               ELSE [wire EXCEPT ![w.Conn] = Append(@, w)]
    /\ loc' = [loc EXCEPT ![g].todo = @ \ {w.userID},
                          ![g].sendErrors =
                              IF WriteMessage(w.Conn, fails) # NilErr
                              THEN Append(@, ErrSend(w.userID, CurCall(g).roomID,
                                                     WriteMessage(w.Conn, fails)))
                              ELSE @]
    /\ pc' = [pc EXCEPT ![g] = "loop"]
    /\ UNCHANGED <<Rooms, heap, call, ret, writes, prevRet>>
    /\ UNCHANGED <<prog, at, mu, rets, final>>

\* the loop has visited every entry
EndLoop(g) ==
    /\ pc[g] = "loop"
    /\ loc[g].todo = {}
    /\ loc' = [loc EXCEPT ![g].ret =
                   [room |-> NilRoom, err |-> BroadcastResult(loc[g].sendErrors)]]
    /\ pc' = [pc EXCEPT ![g] = "unlock"]
    /\ UNCHANGED <<Rooms, heap, call, ret, writes, prevRet>>
    /\ UNCHANGED <<prog, at, mu, rets, inflight, wire, final>>

\* the room, the participant and the connection of a handler
RoomOf(g) == prog[g].calls[1].roomID

UserOf(g) == prog[g].calls[1].userID

ConnOf(g) == prog[g].calls[1].conn

\* the handler finds roomID or userID empty
EmptyParams(g) ==
    /\ prog[g].kind = "handler"
    /\ RoomOf(g) = "" \/ UserOf(g) = ""

\* a handler that does not look at the error of JoinRoom
JoinFailedIgnored(g) == FALSE

\* the JoinRoom of the handler has returned an error
JoinFailed(g) ==
    /\ prog[g].kind = "handler"
    /\ at[g] = 1
    /\ loc[g].ret.err # NilErr

\* GetRoom has returned a room to GetRoomHandler, which goes on to list its
\* participants
Lists(g) ==
    /\ prog[g].kind = "rest"
    /\ CurCall(g).op = "GetRoom"
    /\ loc[g].ret.err = NilErr

\* a handler that returns also when SignalMessage has returned an error
LastCallOnError(g) ==
    \/ at[g] = Len(prog[g].calls)
    \/ JoinFailed(g)
    \/ /\ prog[g].kind = "handler"
       /\ CurCall(g).op = "SignalMessage"
       /\ loc[g].ret.err # NilErr

\* the goroutine has made its last call: its calls are used up, or the
\* handler's JoinRoom failed and the handler returns
LastCall(g) ==
    \/ at[g] = Len(prog[g].calls)
    \/ JoinFailed(g)

\* a method that unlocks before "return nil" only, not on its error returns
ReleaseLeaks(g) ==
    /\ pc[g] = "unlock"
    /\ mu' = IF loc[g].ret.err # NilErr THEN mu
             ELSE IF LockKind(CurCall(g).op) = "Lock"
             THEN [mu EXCEPT !.w = NoGoroutine]
             ELSE [mu EXCEPT !.r = @ \ {g}]
    /\ rets' = [rets EXCEPT ![g] = Append(@, loc[g].ret)]
    /\ loc' = [loc EXCEPT ![g] = NoLocals]
    /\ IF LastCall(g)
       THEN /\ pc' = [pc EXCEPT ![g] = IF JoinFailed(g) THEN "reject"
                                       ELSE IF Lists(g) THEN "list" ELSE "done"]
            /\ UNCHANGED at
       ELSE /\ pc' = [pc EXCEPT ![g] = "call"]
            /\ at' = [at EXCEPT ![g] = @ + 1]
    /\ call' = NoCall
    /\ ret' = NoResult
    /\ writes' = <<>>
    /\ UNCHANGED <<Rooms, heap, prevRet, prog, inflight, wire, final>>

\* the deferred Unlock or RUnlock runs and the call returns
Release(g) ==
    /\ pc[g] = "unlock"
    /\ mu' = IF LockKind(CurCall(g).op) = "Lock"
             THEN [mu EXCEPT !.w = NoGoroutine]
             ELSE [mu EXCEPT !.r = @ \ {g}]
    /\ rets' = [rets EXCEPT ![g] = Append(@, loc[g].ret)]
    /\ loc' = [loc EXCEPT ![g] = NoLocals]
    /\ IF LastCall(g)
       THEN /\ pc' = [pc EXCEPT ![g] = IF JoinFailed(g) THEN "reject"
                                       ELSE IF Lists(g) THEN "list" ELSE "done"]
            /\ UNCHANGED at
       ELSE /\ pc' = [pc EXCEPT ![g] = "call"]
            /\ at' = [at EXCEPT ![g] = @ + 1]
    /\ call' = NoCall
    /\ ret' = NoResult
    /\ writes' = <<>>
    /\ UNCHANGED <<Rooms, heap, prevRet, prog, inflight, wire, final>>

\* the text of the frame a handler writes before it closes a connection it
\* does not accept
Explanation(g) ==
    IF EmptyParams(g)
    THEN <<"RoomID and UserID are required.">>
    ELSE <<"Error joining room: ">> \o Error(rets[g][1].err)

\* the handler writes the frame that says why, closes the connection and
\* returns; the result of the write is not looked at
Reject(g) ==
    /\ pc[g] = "reject"
    /\ final' = [final EXCEPT ![ConnOf(g)] = Frame(TextMessage, Explanation(g))]
    /\ pc' = [pc EXCEPT ![g] = "done"]
    /\ UNCHANGED <<Rooms, heap, call, ret, writes, prevRet>>
    /\ UNCHANGED <<prog, at, mu, loc, rets, inflight, wire>>

\* what the goroutines run: three callers that each join room r1 under an ID
\* of their own and leave it at once; two connections to room r1 that relay
\* frames next to a third connection, accepted or not, or a caller of one
\* method; or two connections for one participant of r1 next to a caller that
\* removes and registers that participant; or two callers that join one
\* participant to r1 with a connection each, and two that create room r2
JoinLeave(userID, conn) ==
    Caller(<<Call("JoinRoom", "r1", userID, conn, <<>>),
             Call("LeaveRoom", "r1", userID, NilConn, <<>>)>>)

Third ==
    {Handler("r1", "c", "c3", <<>>),
     Handler("r1", "a", "c3", <<Frame(TextMessage, <<104, 105>>)>>),
     Handler("r2", "c", "c3", <<Frame(TextMessage, <<104, 105>>)>>),
     Handler("", "c", "c3", <<Frame(TextMessage, <<104, 105>>)>>),
     Handler("r1", "", "c3", <<Frame(TextMessage, <<104, 105>>)>>),
     Caller(<<Call("CreateRoom", "r2", NoUser, NilConn, <<>>)>>),
     Caller(<<Call("GetRoom", "r1", NoUser, NilConn, <<>>)>>),
     Caller(<<Call("JoinRoom", "r1", "c", NilConn, <<>>)>>),
     Caller(<<Call("LeaveRoom", "r1", "b", NilConn, <<>>)>>),
     Caller(<<Call("SignalMessage", "r1", "c", NilConn, <<104, 105>>)>>)}

JoinLeaveAll ==
    [g1 |-> JoinLeave("a", "c1"), g2 |-> JoinLeave("b", "c2"),
     g3 |-> JoinLeave("c", NilConn)]

SameParticipant ==
    [g1 |-> Handler("r1", "a", "c1", <<Frame(TextMessage, <<104, 105>>)>>),
     g2 |-> Caller(<<Call("LeaveRoom", "r1", "a", NilConn, <<>>),
                     Call("JoinRoom", "r1", "a", NilConn, <<>>)>>),
     g3 |-> Handler("r1", "a", "c3", <<>>)]

Twins ==
    [g1 |-> Caller(<<Call("JoinRoom", "r1", "a", "c1", <<>>),
                     Call("CreateRoom", "r2", NoUser, NilConn, <<>>)>>),
     g2 |-> Caller(<<Call("JoinRoom", "r1", "a", "c2", <<>>)>>),
     g3 |-> Caller(<<Call("CreateRoom", "r2", NoUser, NilConn, <<>>)>>)]

Scenarios ==
    {JoinLeaveAll, SameParticipant, Twins}
    \cup
    {[g1 |-> Handler("r1", "a", "c1",
                     <<Frame(TextMessage, <<104, 105>>), Frame(BinaryMessage, <<>>)>>),
      g2 |-> Handler("r1", "b", "c2", frames),
      g3 |-> third] :
        frames \in {<<>>, <<Frame(TextMessage, <<>>)>>}, third \in Third}

\* the service has one room, r1, with no participant, and the goroutines
\* are about to make their first calls
InitConc ==
    /\ Rooms = MapPut(EmptyMap, "r1", 1)
    /\ heap = <<Room("r1")>>
    /\ call = NoCall
    /\ ret = NoResult
    /\ writes = <<>>
    /\ prevRet = NoPrev
    /\ prog \in Scenarios
    /\ at = [g \in Goroutines |-> 1]
    /\ pc = [g \in Goroutines |-> IF EmptyParams(g) THEN "reject" ELSE "call"]
    /\ mu = [w |-> NoGoroutine, r |-> {}]
    /\ loc = [g \in Goroutines |-> NoLocals]
    /\ rets = [g \in Goroutines |-> <<>>]
    /\ inflight = {}
    /\ wire = [conn \in Conns |-> <<>>]
    /\ final = [conn \in Conns |-> NoFrame]

\* GetRoomHandler starts "for userID := range room.Users" on the room it was
\* returned; it holds no lock
ListStart(g) ==
    /\ pc[g] = "list"
    /\ loc' = [loc EXCEPT ![g].todo = DOMAIN heap[Listed(g)].Users]
    /\ pc' = [pc EXCEPT ![g] = "listing"]
    /\ UNCHANGED <<Rooms, heap, call, ret, writes, prevRet>>
    /\ UNCHANGED <<prog, at, mu, rets, inflight, wire, final>>

\* the IDs the loop can have collected: the keys of the map when no call
\* wrote it meanwhile; after a data race, the keys that were there all along
\* and any of those that came or went
ListOutcomes(g) ==
    IF loc[g].raced
    THEN {userIDs \in SUBSET UserIDs :
              \A userID \in userIDs :
                  userID \in loc[g].todo \cup DOMAIN heap[Listed(g)].Users}
    ELSE {DOMAIN heap[Listed(g)].Users}

\* the loop ends and the handler answers with the IDs it collected
ListEnd(g, userIDs) ==
    /\ pc[g] = "listing"
    /\ userIDs \in ListOutcomes(g)
    /\ loc' = [loc EXCEPT ![g].todo = userIDs]
    /\ pc' = [pc EXCEPT ![g] = "done"]
    /\ UNCHANGED <<Rooms, heap, call, ret, writes, prevRet>>
    /\ UNCHANGED <<prog, at, mu, rets, inflight, wire, final>>

\* the runtime finds the map written during the iteration and ends the
\* process, every goroutine with it ("fatal error: concurrent map iteration
\* and map write")
ListFatal(g) ==
    /\ pc[g] = "listing"
    /\ loc[g].raced
    /\ pc' = [h \in Goroutines |-> "fatal"]
    /\ UNCHANGED <<Rooms, heap, call, ret, writes, prevRet>>
    /\ UNCHANGED <<prog, at, mu, loc, rets, inflight, wire, final>>

\* a step of goroutine g
Step(g) ==
    \/ Acquire(g)
    \/ Body(g)
    \/ Lookup(g)
    \/ \E userID \in UserIDs : Visit(g, userID)
    \/ \E w \in inflight, fails \in BOOLEAN : WriteReturn(g, w, fails)
    \/ EndLoop(g)
    \/ Release(g)
    \/ Reject(g)

NextConc == \E g \in Goroutines : Step(g)

SpecConc == InitConc /\ [][NextConc]_vars

\* the scheduler runs every goroutine that can take a step, every write
\* returns, and the read loop of a handler ends after its last frame
FairSpecConc == SpecConc /\ \A g \in Goroutines : WF_vars(Step(g))

\* what the goroutines run next to a GET request for a room: a caller that
\* joins and leaves r1, and a connection to r1, accepted or not
RestScenarios ==
    {[g1 |-> GetRoomRequest(roomID),
      g2 |-> JoinLeave("b", "c2"),
      g3 |-> handler] :
        roomID \in RoomIDs,
        handler \in {Handler("r1", "a", "c3", <<Frame(TextMessage, <<104, 105>>)>>),
                     Handler("r1", "", "c3", <<>>)}}

InitRest ==
    /\ Rooms = MapPut(EmptyMap, "r1", 1)
    /\ heap = <<Room("r1")>>
    /\ call = NoCall
    /\ ret = NoResult
    /\ writes = <<>>
    /\ prevRet = NoPrev
    /\ prog \in RestScenarios
    /\ at = [g \in Goroutines |-> 1]
    /\ pc = [g \in Goroutines |-> IF EmptyParams(g) THEN "reject" ELSE "call"]
    /\ mu = [w |-> NoGoroutine, r |-> {}]
    /\ loc = [g \in Goroutines |-> NoLocals]
    /\ rets = [g \in Goroutines |-> <<>>]
    /\ inflight = {}
    /\ wire = [conn \in Conns |-> <<>>]
    /\ final = [conn \in Conns |-> NoFrame]

NextRest ==
    \E g \in Goroutines :
        \/ Step(g)
        \/ ListStart(g)
        \/ \E userIDs \in SUBSET UserIDs : ListEnd(g, userIDs)
        \/ ListFatal(g)

SpecRest == InitRest /\ [][NextRest]_vars

----------------------------------------------------------------------------
(* Properties of SignalMessage *)

\* the last call was a SignalMessage on a registered room
Signalled ==
    /\ call.op = "SignalMessage"
    /\ call.roomID \in DOMAIN Rooms

\* the participants of the signalled room other than the sender
Others == DOMAIN UsersOf(call.roomID) \ {call.userID}

\* the call invoked WriteMessage on the connection of entry userID with the
\* payload of the call
SentTo(userID) ==
    \E i \in DOMAIN writes :
        /\ writes[i].userID = userID
        /\ writes[i].Conn = UsersOf(call.roomID)[userID].Conn
        /\ writes[i].data = call.message

\* the call made no write for the sender's entry nor on the sender's connection
SenderSpared ==
    \A i \in DOMAIN writes :
        /\ writes[i].userID # call.userID
        /\ call.userID \in DOMAIN UsersOf(call.roomID)
              => writes[i].Conn # UsersOf(call.roomID)[call.userID].Conn

\* the entries whose write failed during the call
Failed == {writes[i].userID : i \in {j \in DOMAIN writes : writes[j].err # NilErr}}

\* C1 as claimed: SignalMessage(r, s, m) on a registered room r invokes the
\* send handle of every participant of r other than s with m, and never the
\* send handle of s.
C1_AsClaimed ==
    Signalled => /\ \A userID \in Others : SentTo(userID)
                 /\ SenderSpared

\* C1 amended: SignalMessage(r, s, m) on a registered room r invokes, with m,
\* the send handle of every participant of r other than s whose handle is
\* not nil, makes no other write, and never invokes the send handle of s.
C1_BroadcastExclusion ==
    Signalled =>
        /\ \A userID \in Others :
              UsersOf(call.roomID)[userID].Conn # NilConn => SentTo(userID)
        /\ \A i \in DOMAIN writes :
              writes[i].userID \in Others /\ SentTo(writes[i].userID)
        /\ SenderSpared

\* a pass from a sender that is a member with a connection, with two writes
C1_Witness ==
    /\ Signalled
    /\ call.userID \in DOMAIN UsersOf(call.roomID)
    /\ UsersOf(call.roomID)[call.userID].Conn # NilConn
    /\ Len(writes) = 2

\* C2 as claimed: when the write to one participant fails, every other
\* participant of r other than the sender still has its handle invoked with m.
C2_AsClaimed ==
    (Signalled /\ Failed # {}) => \A userID \in Others : SentTo(userID)

\* C2 amended: when the write to one participant fails, the pass goes on:
\* every participant of r other than the sender whose handle is not nil has
\* its handle invoked with m, in every iteration order, and the writes made
\* before the failure stay made.
C2_PartialFailureIsolation ==
    (Signalled /\ Failed # {}) =>
        \A userID \in Others :
            UsersOf(call.roomID)[userID].Conn # NilConn => SentTo(userID)

\* a pass whose first write failed and whose second write went through
C2_Witness ==
    /\ Signalled
    /\ Len(writes) = 2
    /\ writes[1].err # NilErr
    /\ writes[2].err = NilErr

\* C3: on a registered room SignalMessage returns an error exactly when a
\* write of the call failed; the one aggregated error names every participant
\* whose write failed and no other; a call with no participant besides the
\* sender makes no write and returns no error.
C3_AggregateError ==
    Signalled =>
        /\ (ret.err # NilErr) <=> (Failed # {})
        /\ ret.err # NilErr =>
              /\ ret.err.format = "errors during SignalMessage broadcast: %v"
              /\ {ret.err.sendErrors[i].userID : i \in DOMAIN ret.err.sendErrors} = Failed
              /\ \A i \in DOMAIN ret.err.sendErrors :
                    ret.err.sendErrors[i].roomID = call.roomID
        /\ Others = {} => (writes = <<>> /\ ret.err = NilErr)

\* a pass in which two writes failed
C3_Witness ==
    /\ Signalled
    /\ Cardinality(Failed) = 2
    /\ Len(ret.err.sendErrors) = 2

----------------------------------------------------------------------------
(* Properties of JoinRoom, LeaveRoom and CreateRoom.  In a step of a call,  *)
(* call' holds the call and its arguments, the unprimed table is the table *)
(* the call found and the primed table is the table it left.               *)

\* the participant map of roomID after the step
UsersAfter(roomID) == heap'[Rooms'[roomID]].Users

\* C4: JoinRoom(r, p, h) on an ID that is not registered returns the error
\* "room r not found" and no room: r is still not registered afterwards (so
\* GetRoom(r), which fails exactly on the IDs that are not registered, still
\* fails) and nothing else in the table has changed.
C4_JoinMissingRoom ==
    [][(call'.op = "JoinRoom" /\ call'.roomID \notin DOMAIN Rooms) =>
          /\ ret' = [room |-> NilRoom, err |-> ErrRoomNotFound(call'.roomID)]
          /\ call'.roomID \notin DOMAIN Rooms'
          /\ Rooms' = Rooms
          /\ heap' = heap]_vars

\* a JoinRoom on an unregistered ID has returned while another room exists
C4_Witness ==
    /\ call.op = "JoinRoom"
    /\ ret.err = ErrRoomNotFound(call.roomID)
    /\ call.roomID \notin DOMAIN Rooms
    /\ DOMAIN Rooms # {}

\* C5: JoinRoom(r, p, h) on a registered room r in which p is absent returns
\* the room and no error; afterwards p is an entry of r holding exactly h, r
\* has one participant more, the other entries are as before, and the room
\* registered under r (what GetRoom(r) returns) is the same room and lists p.
C5_JoinSucceeds ==
    [][(/\ call'.op = "JoinRoom"
        /\ call'.roomID \in DOMAIN Rooms
        /\ call'.userID \notin DOMAIN UsersOf(call'.roomID)) =>
          /\ ret' = [room |-> Rooms[call'.roomID], err |-> NilErr]
          /\ Rooms' = Rooms
          /\ call'.userID \in DOMAIN UsersAfter(call'.roomID)
          /\ UsersAfter(call'.roomID)[call'.userID] = [ID |-> call'.userID, Conn |-> call'.conn]
          /\ Cardinality(DOMAIN UsersAfter(call'.roomID))
                = Cardinality(DOMAIN UsersOf(call'.roomID)) + 1
          /\ \A userID \in DOMAIN UsersOf(call'.roomID) :
                UsersAfter(call'.roomID)[userID] = UsersOf(call'.roomID)[userID]]_vars

\* a JoinRoom with a connection has succeeded on a room that had a participant
C5_Witness ==
    /\ call.op = "JoinRoom"
    /\ ret.err = NilErr
    /\ call.conn # NilConn
    /\ UsersOf(call.roomID)[call.userID].Conn = call.conn
    /\ Cardinality(DOMAIN UsersOf(call.roomID)) = 2

\* C6: JoinRoom(r, p, h2) while p is an entry of r returns the error "user p
\* already in room r" and no room; the participants of r, their number and
\* the entry of p with its handle are as before.
C6_JoinDuplicate ==
    [][(/\ call'.op = "JoinRoom"
        /\ call'.roomID \in DOMAIN Rooms
        /\ call'.userID \in DOMAIN UsersOf(call'.roomID)) =>
          /\ ret' = [room |-> NilRoom,
                      err |-> ErrUserAlreadyInRoom(call'.userID, call'.roomID)]
          /\ Rooms' = Rooms
          /\ UsersAfter(call'.roomID) = UsersOf(call'.roomID)]_vars

\* a JoinRoom was rejected for an entry that holds another handle than the
\* one the call brought
C6_Witness ==
    /\ call.op = "JoinRoom"
    /\ ret.err = ErrUserAlreadyInRoom(call.userID, call.roomID)
    /\ call.conn # NilConn
    /\ UsersOf(call.roomID)[call.userID].Conn \notin {NilConn, call.conn}

\* C7: LeaveRoom(r, p) while p is an entry of r returns no error and removes
\* exactly that entry: p is no participant afterwards, every other entry is
\* still there with its handle, and r is still registered, as the same room.
C7_LeaveRemovesOne ==
    [][(/\ call'.op = "LeaveRoom"
        /\ call'.roomID \in DOMAIN Rooms
        /\ call'.userID \in DOMAIN UsersOf(call'.roomID)) =>
          /\ ret'.err = NilErr
          /\ Rooms' = Rooms
          /\ DOMAIN UsersAfter(call'.roomID)
                = DOMAIN UsersOf(call'.roomID) \ {call'.userID}
          /\ \A userID \in DOMAIN UsersAfter(call'.roomID) :
                UsersAfter(call'.roomID)[userID] = UsersOf(call'.roomID)[userID]
          /\ \A roomID \in DOMAIN Rooms \ {call'.roomID} :
                UsersAfter(roomID) = UsersOf(roomID)]_vars

\* a LeaveRoom has succeeded and left another participant with a connection
C7_Witness ==
    /\ call.op = "LeaveRoom"
    /\ ret.err = NilErr
    /\ \E userID \in DOMAIN UsersOf(call.roomID) :
          UsersOf(call.roomID)[userID].Conn # NilConn

\* C8: LeaveRoom(r, p) returns "room r not found" when r is not registered
\* and "user p not in room r" when r is registered and p is no entry of it;
\* the second of two LeaveRoom(r, p) in a row, the first of which succeeded,
\* returns "user p not in room r".
C8_LeaveErrors ==
    [][call'.op = "LeaveRoom" =>
          /\ call'.roomID \notin DOMAIN Rooms
                => ret'.err = ErrRoomNotFound(call'.roomID)
          /\ (/\ call'.roomID \in DOMAIN Rooms
              /\ call'.userID \notin DOMAIN UsersOf(call'.roomID))
                => ret'.err = ErrUserNotInRoom(call'.userID, call'.roomID)
          /\ prevRet'.err = NilErr
                => ret'.err = ErrUserNotInRoom(call'.userID, call'.roomID)]_vars

\* the second of two LeaveRoom(r, p) in a row has failed after the first
\* succeeded
C8_Witness ==
    /\ call.op = "LeaveRoom"
    /\ prevRet.err = NilErr
    /\ ret.err = ErrUserNotInRoom(call.userID, call.roomID)

\* C9: CreateRoom(r) returns no error exactly when r is not registered at the
\* call; then r is registered afterwards, with no participant, the call
\* returns that room and the other rooms are as before; on a registered r it
\* returns the error "room r already exists" and no room.
C9_CreateRoom ==
    [][call'.op = "CreateRoom" =>
          IF call'.roomID \in DOMAIN Rooms
          THEN ret' = [room |-> NilRoom, err |-> ErrRoomAlreadyExists(call'.roomID)]
          ELSE /\ ret'.err = NilErr
               /\ DOMAIN Rooms' = DOMAIN Rooms \cup {call'.roomID}
               /\ ret'.room = Rooms'[call'.roomID]
               /\ heap'[ret'.room] = [ID |-> call'.roomID, Users |-> EmptyMap]
               /\ \A roomID \in DOMAIN Rooms :
                     /\ Rooms'[roomID] = Rooms[roomID]
                     /\ heap'[Rooms'[roomID]] = heap[Rooms[roomID]]]_vars

\* a CreateRoom has succeeded next to a room that has participants
C9_Witness ==
    /\ call.op = "CreateRoom"
    /\ ret.err = NilErr
    /\ DOMAIN UsersOf(call.roomID) = {}
    /\ \E roomID \in DOMAIN Rooms : DOMAIN UsersOf(roomID) # {}

\* C10: a call that returns an error leaves the table as it found it: the
\* registered rooms, the participants of every room and every stored handle;
\* a CreateRoom(r) that failed has not emptied the room r.
C10_FailedCallsChangeNothing ==
    [][(call' # NoCall /\ ret'.err # NilErr) =>
          (Rooms' = Rooms /\ heap' = heap)]_vars

\* a CreateRoom has failed on a room that has a participant with a connection
C10_Witness ==
    /\ call.op = "CreateRoom"
    /\ ret.err = ErrRoomAlreadyExists(call.roomID)
    /\ \E userID \in DOMAIN UsersOf(call.roomID) :
          UsersOf(call.roomID)[userID].Conn # NilConn
----------------------------------------------------------------------------
(* Further properties of the calls, one call a step *)

\* C13: SignalMessage leaves the table as it found it, whether it returns an
\* error or not; a participant whose write failed in a SignalMessage is still
\* an entry of the room when the same sender signals again, and that call
\* writes to it again.
C13_SignalKeepsTable ==
    [][call'.op = "SignalMessage" =>
          /\ Rooms' = Rooms
          /\ heap' = heap
          /\ prevRet'.err.format = "errors during SignalMessage broadcast: %v" =>
                \A i \in DOMAIN prevRet'.err.sendErrors :
                    /\ prevRet'.err.sendErrors[i].userID \in DOMAIN UsersAfter(call'.roomID)
                    /\ \E j \in DOMAIN writes' :
                          writes'[j].userID = prevRet'.err.sendErrors[i].userID]_vars

\* the second of two SignalMessage in a row has written, without an error, to
\* an entry whose write failed in the first
C13_Witness ==
    /\ call.op = "SignalMessage"
    /\ prevRet.err.format = "errors during SignalMessage broadcast: %v"
    /\ ret.err = NilErr
    /\ \E j \in DOMAIN writes :
          writes[j].userID = prevRet.err.sendErrors[1].userID
\* C14: a registered room stays registered, as the same room, in every later
\* state, whatever is called; a room whose last participant has left is still
\* the room GetRoom returns, and CreateRoom on it still returns the error
\* "room r already exists".
C14_RoomsPersist ==
    [][/\ \A roomID \in DOMAIN Rooms :
            roomID \in DOMAIN Rooms' /\ Rooms'[roomID] = Rooms[roomID]
       /\ (/\ call'.op \in {"GetRoom", "CreateRoom"}
           /\ call'.roomID \in DOMAIN Rooms
           /\ DOMAIN UsersOf(call'.roomID) = {}) =>
             ret' = IF call'.op = "GetRoom"
                    THEN [room |-> Rooms[call'.roomID], err |-> NilErr]
                    ELSE [room |-> NilRoom, err |-> ErrRoomAlreadyExists(call'.roomID)]]_vars

\* the last participant of a room has left and the room is registered
C14_Witness ==
    /\ call.op = "LeaveRoom"
    /\ ret.err = NilErr
    /\ call.roomID \in DOMAIN Rooms
    /\ DOMAIN UsersOf(call.roomID) = {}

\* C15: SignalMessage on an ID that is not registered returns the error
\* "room r not found" and makes no write at all.
C15_SignalMissingRoom ==
    [][(call'.op = "SignalMessage" /\ call'.roomID \notin DOMAIN Rooms) =>
          /\ ret'.err = ErrRoomNotFound(call'.roomID)
          /\ writes' = <<>>]_vars

\* a SignalMessage on an unregistered ID has returned while a participant
\* with a connection is in another room
C15_Witness ==
    /\ call.op = "SignalMessage"
    /\ call.roomID \notin DOMAIN Rooms
    /\ ret.err = ErrRoomNotFound(call.roomID)
    /\ \E roomID \in DOMAIN Rooms : \E userID \in DOMAIN UsersOf(roomID) :
          UsersOf(roomID)[userID].Conn # NilConn

\* C16 as claimed: SignalMessage(r, senderID, m) on a registered room r of
\* which senderID is no participant is not rejected and sends m to every
\* participant of r.
C16_AsClaimed ==
    (Signalled /\ call.userID \notin DOMAIN UsersOf(call.roomID)) =>
        /\ ret.err.format \in {"nil", "errors during SignalMessage broadcast: %v"}
        /\ \A userID \in DOMAIN UsersOf(call.roomID) : SentTo(userID)

\* C16 amended: SignalMessage(r, senderID, m) on a registered room r of which
\* senderID is no participant is not rejected (it returns no error, or the
\* aggregate of the failed writes) and sends m to every participant of r
\* whose handle is not nil.
C16_SenderNeedNotBeMember ==
    (Signalled /\ call.userID \notin DOMAIN UsersOf(call.roomID)) =>
        /\ ret.err # NilErr =>
              /\ ret.err.format = "errors during SignalMessage broadcast: %v"
              /\ Failed # {}
        /\ \A userID \in DOMAIN UsersOf(call.roomID) :
              UsersOf(call.roomID)[userID].Conn # NilConn => SentTo(userID)

\* a sender that is no participant has signalled a room of two participants
\* with connections, and both were written to
C16_Witness ==
    /\ Signalled
    /\ call.userID \notin DOMAIN UsersOf(call.roomID)
    /\ Len(writes) = 2
    /\ ret.err = NilErr

\* roomID is registered and userID is an entry of it
Member(roomID, userID) ==
    /\ roomID \in DOMAIN Rooms
    /\ userID \in DOMAIN UsersOf(roomID)

\* the same after the step
MemberAfter(roomID, userID) ==
    /\ roomID \in DOMAIN Rooms'
    /\ userID \in DOMAIN UsersAfter(roomID)

\* C18: whether p is a participant of r changes only from absent to joined in
\* a JoinRoom(r, p, _) that returns no error, and from joined to absent in a
\* LeaveRoom(r, p) that returns no error; no call on another room or another
\* participant, and no CreateRoom, GetRoom or SignalMessage, changes it.
C18_MembershipTransitions ==
    [][\A roomID \in RoomIDs, userID \in UserIDs :
          /\ (~Member(roomID, userID) /\ MemberAfter(roomID, userID)) =>
                /\ call' = Call("JoinRoom", roomID, userID, call'.conn, <<>>)
                /\ ret'.err = NilErr
          /\ (Member(roomID, userID) /\ ~MemberAfter(roomID, userID)) =>
                /\ call' = Call("LeaveRoom", roomID, userID, NilConn, <<>>)
                /\ ret'.err = NilErr
          /\ (call'.op = "JoinRoom" /\ ret'.err = NilErr) =>
                (~Member(call'.roomID, call'.userID)
                   /\ MemberAfter(call'.roomID, call'.userID))
          /\ (call'.op = "LeaveRoom" /\ ret'.err = NilErr) =>
                (Member(call'.roomID, call'.userID)
                   /\ ~MemberAfter(call'.roomID, call'.userID))]_vars

\* a participant has left a room in which two others stay, or joined a room
\* while the same ID is a participant of the other room
C18_Witness ==
    /\ ret.err = NilErr
    /\ \/ /\ call.op = "LeaveRoom"
          /\ Cardinality(DOMAIN UsersOf(call.roomID)) = 2
       \/ /\ call.op = "JoinRoom"
          /\ \E roomID \in DOMAIN Rooms \ {call.roomID} :
                call.userID \in DOMAIN UsersOf(roomID)

\* C19: as long as p stays an entry of r, the entry holds the handle its
\* JoinRoom stored: no step changes the entry of a participant that is in the
\* room before and after it, not a rejected JoinRoom(r, p, h2) with another
\* handle and not a SignalMessage; a successful JoinRoom(r, p, h) stores h.
C19_HandleImmutable ==
    [][/\ \A roomID \in RoomIDs, userID \in UserIDs :
            (Member(roomID, userID) /\ MemberAfter(roomID, userID)) =>
                UsersAfter(roomID)[userID] = UsersOf(roomID)[userID]
       /\ (call'.op = "JoinRoom" /\ ret'.err = NilErr) =>
            UsersAfter(call'.roomID)[call'.userID].Conn = call'.conn]_vars

\* the second of two JoinRoom(r, p, _) in a row was rejected after the first
\* succeeded, and the entry holds another handle than the second brought
C19_Witness ==
    /\ call.op = "JoinRoom"
    /\ prevRet.err = NilErr
    /\ ret.err = ErrUserAlreadyInRoom(call.userID, call.roomID)
    /\ UsersOf(call.roomID)[call.userID].Conn # call.conn

----------------------------------------------------------------------------
(* Properties of concurrent callers *)

\* every goroutine has made all its calls
AllDone == \A g \in Goroutines : pc[g] = "done"

\* C11: when the goroutines each join room r1 under an ID of their own and
\* leave it at once, every JoinRoom and every LeaveRoom returns nil under
\* every interleaving, and when all have returned the room has no participant
C11_ConcurrentJoinLeave ==
    prog = JoinLeaveAll =>
        /\ \A g \in Goroutines :
               \A i \in DOMAIN rets[g] : rets[g][i].err = NilErr
        /\ AllDone => DOMAIN UsersOf("r1") = {}

\* the three goroutines have returned from JoinRoom and from LeaveRoom
C11_Witness ==
    /\ prog = JoinLeaveAll
    /\ AllDone
    /\ \A g \in Goroutines : Len(rets[g]) = 2
    /\ DOMAIN UsersOf("r1") = {}

\* C12: while a goroutine is inside CreateRoom, JoinRoom or LeaveRoom, on any
\* room, no other goroutine is inside a method of the service; only GetRoom
\* and SignalMessage are in progress together
C12_TableLock ==
    \A g \in Goroutines : \A h \in Goroutines \ {g} :
        InCS(g) /\ InCS(h) =>
            /\ CurCall(g).op \in {"GetRoom", "SignalMessage"}
            /\ CurCall(h).op \in {"GetRoom", "SignalMessage"}

\* a GetRoom and a write of a SignalMessage pass are in progress together
\* while a LeaveRoom waits for the mutex
C12_Witness ==
    \E g, h, k \in Goroutines :
        /\ pc[g] = "locked" /\ CurCall(g).op = "GetRoom"
        /\ pc[h] = "writing" /\ CurCall(h).op = "SignalMessage"
        /\ pc[k] = "call" /\ CurCall(k).op = "LeaveRoom"

\* the payload of the frame, or the message of the call, that a write relays
Inbound(w) ==
    IF prog[w.g].kind = "handler"
    THEN prog[w.g].frames[w.at - 1].data
    ELSE prog[w.g].calls[w.at].message

\* the frames a connection has carried
Carried(conn) == {wire[conn][i] : i \in DOMAIN wire[conn]}

\* C17: the bytes a connection is given are the bytes of the inbound frame,
\* nothing added and nothing dropped, an empty payload included
C17_PayloadUnchanged ==
    \A w \in inflight \cup UNION {Carried(conn) : conn \in Conns} :
        w.data = Inbound(w)

\* one connection has carried an empty payload and a payload of two bytes
C17_Witness ==
    \E conn \in Conns :
        \E v, w \in Carried(conn) :
            /\ v.data = <<>> /\ Inbound(v) = <<>>
            /\ w.data = <<104, 105>> /\ Inbound(w) = <<104, 105>>

\* C20: the frames one sender relays reach a connection in the order of the
\* sender's calls
C20_CallOrder ==
    \A conn \in Conns :
        \A i, j \in DOMAIN wire[conn] :
            i < j /\ wire[conn][i].g = wire[conn][j].g =>
                wire[conn][i].at < wire[conn][j].at

\* a connection has carried the frames of two calls of one sender
C20_Witness ==
    \E conn \in Conns :
        \E i, j \in DOMAIN wire[conn] :
            /\ i < j
            /\ wire[conn][i].g = wire[conn][j].g
            /\ wire[conn][i].userID = wire[conn][j].userID
            /\ wire[conn][i].at < wire[conn][j].at

----------------------------------------------------------------------------
(* Delivery *)

\* C28: within one SignalMessage call the connection of a participant is
\* written to at most once, whether the write fails or not
C28_AtMostOnce ==
    \A i, j \in DOMAIN writes :
        writes[i].userID = writes[j].userID => i = j

\* a SignalMessage call has written to two participants and one of the
\* writes failed
C28_Witness ==
    /\ call.op = "SignalMessage"
    /\ Len(writes) = 2
    /\ \E i \in DOMAIN writes : writes[i].err # NilErr

----------------------------------------------------------------------------
(* GetRoom *)

\* C24: GetRoom(r) returns the error "room r not found" exactly when r is not
\* registered and changes nothing; on a registered r it returns the room
\* object the table holds for r, and the table holds the same object for r
\* ever after, so what JoinRoom and LeaveRoom do to the room later is seen
\* through the returned room
C24_GetRoomLive ==
    [][/\ call'.op = "GetRoom" =>
             /\ UNCHANGED <<Rooms, heap>>
             /\ IF call'.roomID \in DOMAIN Rooms
                THEN /\ ret'.err = NilErr
                     /\ ret'.room = Rooms[call'.roomID]
                     /\ heap[ret'.room].ID = call'.roomID
                ELSE ret' = [room |-> NilRoom, err |-> ErrRoomNotFound(call'.roomID)]
       /\ \A roomID \in DOMAIN Rooms :
             /\ roomID \in DOMAIN Rooms'
             /\ Rooms'[roomID] = Rooms[roomID]]_vars

\* GetRoom has returned a room that has participants
C24_Witness ==
    /\ call.op = "GetRoom"
    /\ ret.err = NilErr
    /\ ret.room = Rooms[call.roomID]
    /\ DOMAIN heap[ret.room].Users # {}

----------------------------------------------------------------------------
(* Membership in several rooms *)

\* C25 as claimed: no participant ID is a member of two rooms
C25_AsClaimed ==
    \A r1 \in DOMAIN Rooms : \A r2 \in DOMAIN Rooms \ {r1} :
        DOMAIN UsersOf(r1) \cap DOMAIN UsersOf(r2) = {}

\* C25: participant IDs are unique within a room only: JoinRoom(r, p, h) on a
\* registered room r is refused exactly when p is a participant of r itself,
\* whatever other rooms p is in, and it leaves the other rooms as they are
C25_UniqueWithinRoom ==
    [][call'.op = "JoinRoom" /\ call'.roomID \in DOMAIN Rooms =>
          /\ ret'.err = NilErr <=> call'.userID \notin DOMAIN UsersOf(call'.roomID)
          /\ ret'.err # NilErr =>
                 ret'.err = ErrUserAlreadyInRoom(call'.userID, call'.roomID)
          /\ \A roomID \in DOMAIN Rooms \ {call'.roomID} :
                 UsersAfter(roomID) = UsersOf(roomID)]_vars

\* JoinRoom has succeeded for a participant ID that is in another room
C25_Witness ==
    /\ call.op = "JoinRoom"
    /\ ret.err = NilErr
    /\ \E roomID \in DOMAIN Rooms \ {call.roomID} :
           call.userID \in DOMAIN UsersOf(roomID)

----------------------------------------------------------------------------
(* Responses of the REST handlers *)

\* C26 as claimed: a CreateRoom that finds the room registered and a JoinRoom
\* that finds the participant in the room are answered with status 409
C26_AsClaimed ==
    /\ ByRest(call)
    /\ \/ ret.err = ErrRoomAlreadyExists(call.roomID)
       \/ ret.err = ErrUserAlreadyInRoom(call.userID, call.roomID)
    => Response(call, ret) = 409

\* C26: a CreateRoom that finds the room registered and a JoinRoom that finds
\* the participant in the room are answered with the status of an internal
\* server error
C26_AlreadyExistsIsServerError ==
    /\ ByRest(call)
    /\ \/ ret.err = ErrRoomAlreadyExists(call.roomID)
       \/ ret.err = ErrUserAlreadyInRoom(call.userID, call.roomID)
    => Response(call, ret) = StatusInternalServerError

\* a join without a connection has found the participant in the room
C26_Witness ==
    /\ ByRest(call)
    /\ call.op = "JoinRoom"
    /\ ret.err = ErrUserAlreadyInRoom(call.userID, call.roomID)
    /\ Response(call, ret) = StatusInternalServerError

\* C27: a fetch, join or leave on a room that is not registered and a leave
\* by a participant that is not in the room are answered with the status not
\* found, and the request leaves the table as it was
C27_NotFound ==
    [][/\ ByRest(call')
       /\ call'.op \in {"GetRoom", "JoinRoom", "LeaveRoom"}
       /\ \/ ret'.err = ErrRoomNotFound(call'.roomID)
          \/ ret'.err = ErrUserNotInRoom(call'.userID, call'.roomID)
       => /\ Response(call', ret') = StatusNotFound
          /\ UNCHANGED <<Rooms, heap>>]_vars

\* a leave has found the room but not the participant, in a room that has
\* other participants
C27_Witness ==
    /\ call.op = "LeaveRoom"
    /\ ret.err = ErrUserNotInRoom(call.userID, call.roomID)
    /\ Response(call, ret) = StatusNotFound
    /\ DOMAIN UsersOf(call.roomID) # {}

----------------------------------------------------------------------------
(* The frames on a connection *)

\* the type of the frame a write of a connection's handler relays
InboundType(w) == prog[w.g].frames[w.at - 1].messageType

\* C23: a payload is written to every recipient in a frame of the type of the
\* frame it was received in, binary as binary and text as text
C23_FrameTypePreserved ==
    \A w \in inflight \cup UNION {Carried(conn) : conn \in Conns} :
        prog[w.g].kind = "handler" => w.messageType = InboundType(w)

\* C29: no two writes are in progress on one connection
C29_OneWritePerConn ==
    \A v, w \in inflight : v.Conn = w.Conn => v = w

----------------------------------------------------------------------------
(* The handler of a connection *)

\* the handler of g does not accept its connection: a parameter is empty or
\* its JoinRoom has returned an error
Refused(g) ==
    /\ prog[g].kind = "handler"
    /\ \/ EmptyParams(g)
       \/ Len(rets[g]) >= 1 /\ rets[g][1].err # NilErr

\* the writes of the calls of g, in progress or returned
RelayedBy(g) ==
    {w \in inflight \cup UNION {Carried(conn) : conn \in Conns} : w.g = g}

C30_LeaveRemovesOwnEntry ==
    [][\A g \in Goroutines :
          /\ prog[g].kind = "handler"
          /\ pc[g] = "locked" /\ pc'[g] = "unlock"
          /\ CurCall(g).op = "LeaveRoom"
          /\ UserOf(g) \in DOMAIN UsersOf(RoomOf(g))
          /\ UserOf(g) \notin DOMAIN UsersAfter(RoomOf(g))
          => UsersOf(RoomOf(g))[UserOf(g)].Conn = ConnOf(g)]_vars

\* the JoinRoom of the handler of g has returned no error
Joined(g) ==
    /\ prog[g].kind = "handler"
    /\ Len(rets[g]) >= 1
    /\ rets[g][1].err = NilErr

\* the calls of LeaveRoom that g has made and that have returned
LeaveCalls(g) ==
    {i \in 1..Len(rets[g]) :
        prog[g].calls[i] = Call("LeaveRoom", RoomOf(g), UserOf(g), NilConn, <<>>)}

\* the LeaveRoom of the handler of g is about to return and the participant
\* is not in the room
Left(g) ==
    /\ at[g] = Len(prog[g].calls)
    /\ pc[g] = "unlock"
    /\ CurCall(g).op = "LeaveRoom"
    /\ RoomOf(g) \in DOMAIN Rooms
    /\ UserOf(g) \notin DOMAIN UsersOf(RoomOf(g))

\* C21: a frame of a connection is relayed only after the JoinRoom of its
\* handler has returned no error, by a SignalMessage with the participant of
\* the connection as sender and the payload of the frame; the room stays
\* registered; a handler that has joined and returned has relayed every frame
\* and called LeaveRoom once; and a handler that has joined comes to the
\* return of its LeaveRoom, before it returns itself, with the participant
\* absent from the room
C21_Lifecycle ==
    /\ [](\A g \in Goroutines : prog[g].kind = "handler" =>
             /\ RelayedBy(g) # {} => Joined(g)
             /\ \A w \in RelayedBy(g) :
                    prog[g].calls[w.at] =
                        Call("SignalMessage", RoomOf(g), UserOf(g), NilConn,
                             prog[g].frames[w.at - 1].data)
             /\ Joined(g) => RoomOf(g) \in DOMAIN Rooms
             /\ Cardinality(LeaveCalls(g)) <= 1
             /\ Joined(g) /\ pc[g] = "done" =>
                    /\ Len(rets[g]) = Len(prog[g].frames) + 2
                    /\ Cardinality(LeaveCalls(g)) = 1)
    /\ \A g \in Goroutines : (Joined(g) /\ pc[g] # "done") ~> Left(g)

\* a handler has joined, relayed a frame and returned, and its participant is
\* not in the room
C21_Witness ==
    \E g \in Goroutines :
        /\ Joined(g)
        /\ pc[g] = "done"
        /\ \E conn \in Conns : \E w \in Carried(conn) : w.g = g
        /\ UserOf(g) \notin DOMAIN UsersOf(RoomOf(g))

----------------------------------------------------------------------------
(* The pass of SignalMessage among concurrent callers *)

\* goroutine g is inside SignalMessage, between RLock and RUnlock
InPass(g) == CurCall(g).op = "SignalMessage" /\ InCS(g)

\* the loop of the SignalMessage of g has visited every entry of the room
PassDone(g) ==
    /\ CurCall(g).op = "SignalMessage"
    /\ pc[g] = "unlock"
    /\ CurCall(g).roomID \in DOMAIN Rooms

\* the writes of the call g is making: in progress, returned nil, or failed
Attempted(g) ==
    {w.userID : w \in {v \in inflight \cup UNION {Carried(conn) : conn \in Conns} :
                           v.g = g /\ v.at = at[g]}}
    \cup {loc[g].sendErrors[i].userID : i \in DOMAIN loc[g].sendErrors}

\* the entries of the room of g's call that have a connection, the sender's
\* entry left out
Recipients(g) ==
    {userID \in DOMAIN UsersOf(CurCall(g).roomID) :
        IsRecipient(userID, UsersOf(CurCall(g).roomID)[userID], CurCall(g).userID)}

\* C31 as claimed: a SignalMessage pass attempts to send to every participant
\* of the room but the sender
C31_AsClaimed ==
    \A g \in Goroutines :
        PassDone(g) =>
            Attempted(g) = DOMAIN UsersOf(CurCall(g).roomID) \ {CurCall(g).userID}

\* C31: while a goroutine is inside SignalMessage the table and the
\* participants of every room stay as they were when it took the lock; when
\* its loop ends it has attempted to send to exactly the participants of the
\* room that have a send handle, the sender left out; and no write is started
\* on the connection of a handler whose LeaveRoom has returned
C31_PassSeesOneMembership ==
    [][\A g \in Goroutines :
           /\ InPass(g) => Rooms' = Rooms /\ heap' = heap
           /\ PassDone(g) => Attempted(g) = Recipients(g)
           /\ Joined(g) /\ pc[g] = "done" =>
                  \A w \in inflight' \ inflight : w.Conn # ConnOf(g)]_vars

\* a pass has ended in a room that has, next to the sender, a participant
\* with a send handle, to whom it sent, and a participant without one
C31_Witness ==
    \E g \in Goroutines :
        /\ PassDone(g)
        /\ Attempted(g) # {}
        /\ \E userID \in DOMAIN UsersOf(CurCall(g).roomID) \ {CurCall(g).userID} :
               UsersOf(CurCall(g).roomID)[userID].Conn = NilConn

\* C33: while a WriteMessage called by a SignalMessage pass has not returned,
\* no goroutine is inside CreateRoom, JoinRoom or LeaveRoom, whatever the
\* room, and none of these calls returns
C33_WriteBlocksWriters ==
    [][inflight # {} =>
           \A g \in Goroutines :
               Mutates(CurCall(g).op) =>
                   /\ pc[g] # "done" => ~InCS(g) /\ ~InCS(g)'
                   /\ rets'[g] = rets[g]]_vars

\* a write to a participant of r1 has not returned and a CreateRoom of
\* another room waits for the mutex
C33_Witness ==
    \E g \in Goroutines :
        /\ pc[g] = "call"
        /\ CurCall(g).op = "CreateRoom"
        /\ \E w \in inflight : CurCall(w.g).roomID # CurCall(g).roomID

\* one of the results x and y is nil and the other is the error e
OneOf(x, y, e) ==
    \/ x.err = NilErr /\ y.err = e
    \/ y.err = NilErr /\ x.err = e

\* C35: of two JoinRoom calls that run together for participant a of room r1,
\* each with a connection of its own, one returns nil and the other the
\* error that a is already in the room, and the entry of a holds the
\* connection of the call that returned nil; of two CreateRoom calls that run
\* together for room r2, one returns the room and the other the error that the
\* room already exists
C35_OneWinner ==
    prog = Twins =>
        /\ Len(rets.g1) >= 1 /\ Len(rets.g2) >= 1 =>
               /\ OneOf(rets.g1[1], rets.g2[1], ErrUserAlreadyInRoom("a", "r1"))
               /\ DOMAIN UsersOf("r1") = {"a"}
               /\ UsersOf("r1")["a"] =
                      User("a", IF rets.g1[1].err = NilErr THEN "c1" ELSE "c2")
               /\ \A g \in {"g1", "g2"} :
                      rets[g][1].room =
                          IF rets[g][1].err = NilErr THEN Rooms["r1"] ELSE NilRoom
        /\ Len(rets.g1) >= 2 /\ Len(rets.g3) >= 1 =>
               /\ OneOf(rets.g1[2], rets.g3[1], ErrRoomAlreadyExists("r2"))
               /\ "r2" \in DOMAIN Rooms
               /\ heap[Rooms["r2"]] = Room("r2")
               /\ rets.g1[2].room = IF rets.g1[2].err = NilErr THEN Rooms["r2"] ELSE NilRoom
               /\ rets.g3[1].room = IF rets.g3[1].err = NilErr THEN Rooms["r2"] ELSE NilRoom

\* all four calls have returned, and the JoinRoom that was made second in
\* the program text is the one that succeeded
C35_Witness ==
    /\ prog = Twins
    /\ AllDone
    /\ rets.g2[1].err = NilErr
    /\ rets.g1[1].err = ErrUserAlreadyInRoom("a", "r1")
    /\ UsersOf("r1")["a"].Conn = "c2"
    /\ rets.g3[1].err = ErrRoomAlreadyExists("r2")

\* goroutine g holds the mutex, locked or read-locked
Holds(g) == mu.w = g \/ g \in mu.r

\* C36: a goroutine holds the mutex only between the first statement of a
\* method and its return, so it holds nothing when it calls a method and
\* nothing when the method has returned, with an error or without; and when
\* every WriteMessage returns, every goroutine comes to the end of its calls
C36_CallsReturn ==
    /\ [](\A g \in Goroutines :
             /\ Holds(g) <=> InCS(g)
             /\ mu.w # NoGoroutine => mu.r = {})
    /\ \A g \in Goroutines : <>(pc[g] = "done")

\* every goroutine has made its calls, a JoinRoom and a SignalMessage have
\* returned an error, and the mutex is free
C36_Witness ==
    /\ AllDone
    /\ mu = [w |-> NoGoroutine, r |-> {}]
    /\ \A op \in {"JoinRoom", "SignalMessage"} :
           \E g \in Goroutines : \E i \in DOMAIN rets[g] :
               prog[g].calls[i].op = op /\ rets[g][i].err # NilErr

\* the SignalMessage a handler called for a frame is about to return an error
SignalFailed(g) ==
    /\ prog[g].kind = "handler"
    /\ CurCall(g).op = "SignalMessage"
    /\ pc[g] = "unlock"
    /\ loc[g].ret.err # NilErr

\* C38: when the SignalMessage a handler called for a frame returns an error,
\* the handler goes on to its next call; no step of a handler's SignalMessage
\* changes the table, so the sender is a member afterwards if it was before;
\* the handler calls LeaveRoom only when it has called SignalMessage for all
\* the frames it read; and after the error the handler comes to its end with
\* a SignalMessage returned for every frame
C38_ErrorKeepsSession ==
    /\ [][\A g \in Goroutines :
              /\ SignalFailed(g) /\ pc'[g] # pc[g] =>
                     /\ pc'[g] = "call"
                     /\ at'[g] = at[g] + 1
                     /\ rets'[g] = Append(rets[g], loc[g].ret)
              /\ prog[g].kind = "handler" /\ CurCall(g).op = "SignalMessage"
                     /\ (pc'[g] # pc[g] \/ loc'[g] # loc[g]) =>
                     Rooms' = Rooms /\ heap' = heap
              /\ prog[g].kind = "handler" /\ CurCall(g).op = "LeaveRoom" =>
                     at[g] = Len(prog[g].frames) + 2]_vars
    /\ \A g \in Goroutines :
           SignalFailed(g) ~>
               /\ pc[g] = "done"
               /\ Len(rets[g]) = Len(prog[g].frames) + 2
               /\ \A i \in 1..Len(prog[g].frames) :
                      prog[g].calls[i + 1].op = "SignalMessage"

\* the SignalMessage of the first frame of a handler has returned an error,
\* the sender is still in the room, and a connection has carried its second
\* frame
C38_Witness ==
    \E g \in Goroutines :
        /\ Joined(g)
        /\ Len(rets[g]) >= 2
        /\ rets[g][2].err # NilErr
        /\ pc[g] # "done"
        /\ UserOf(g) \in DOMAIN UsersOf(RoomOf(g))
        /\ \E conn \in Conns : \E w \in Carried(conn) : w.g = g /\ w.at = 3

----------------------------------------------------------------------------
(* Participants without a connection *)

\* participant userID is in room roomID with a nil connection
Silent(roomID, userID) ==
    /\ Member(roomID, userID)
    /\ UsersOf(roomID)[userID] = User(userID, NilConn)

\* the errors a SignalMessage result carries
SendErrorsOf(err) ==
    IF err = NilErr THEN <<>> ELSE err.sendErrors

\* C34: JoinRoom with a nil connection, as the REST handler calls it, makes
\* the participant an entry of the room with a nil connection; while the
\* entry is there, JoinRoom with its ID returns the error that the
\* participant is already in the room and changes nothing, GetRoom returns the
\* room with the entry, LeaveRoom removes it and returns nil, and
\* SignalMessage on the room calls WriteMessage for no such entry and carries
\* no error about it
C34_NilHandleMember ==
    [][\A roomID \in RoomIDs, userID \in UserIDs :
          /\ call' = Call("JoinRoom", roomID, userID, NilConn, <<>>)
                /\ ret'.err = NilErr
                => /\ MemberAfter(roomID, userID)
                   /\ UsersAfter(roomID)[userID] = User(userID, NilConn)
                   /\ Response(call', ret') = StatusOK
          /\ Silent(roomID, userID) =>
                /\ call'.op = "JoinRoom" /\ call'.roomID = roomID
                      /\ call'.userID = userID
                      => /\ ret' = [room |-> NilRoom,
                                    err |-> ErrUserAlreadyInRoom(userID, roomID)]
                         /\ Rooms' = Rooms /\ heap' = heap
                /\ call'.op = "GetRoom" /\ call'.roomID = roomID
                      => /\ ret' = [room |-> Rooms[roomID], err |-> NilErr]
                         /\ userID \in DOMAIN heap'[ret'.room].Users
                /\ call'.op = "LeaveRoom" /\ call'.roomID = roomID
                      /\ call'.userID = userID
                      => /\ ret'.err = NilErr
                         /\ ~MemberAfter(roomID, userID)
                /\ call'.op = "SignalMessage" /\ call'.roomID = roomID
                      => /\ \A i \in DOMAIN writes' : writes'[i].userID # userID
                         /\ \A i \in DOMAIN SendErrorsOf(ret'.err) :
                                SendErrorsOf(ret'.err)[i].userID # userID
                         /\ Silent(roomID, userID)']_vars

\* a SignalMessage has written to a participant with a connection in a room
\* that has, next to the sender, a participant with a nil connection
C34_Witness ==
    /\ Signalled
    /\ writes # <<>>
    /\ \E userID \in Others : Silent(call.roomID, userID)

----------------------------------------------------------------------------
(* Rooms are apart *)

\* C37: every WriteMessage of SignalMessage(r, s, m) is called on the
\* connection of an entry of r, and on the connection of no entry of another
\* room, also when the ID of the entry is in the other room too
C37_OwnRoomOnly ==
    Signalled =>
        \A i \in DOMAIN writes :
            /\ writes[i].userID \in DOMAIN UsersOf(call.roomID)
            /\ writes[i].Conn = UsersOf(call.roomID)[writes[i].userID].Conn
            /\ \A roomID \in DOMAIN Rooms \ {call.roomID} :
                   \A userID \in DOMAIN UsersOf(roomID) :
                       UsersOf(roomID)[userID].Conn # writes[i].Conn

\* SignalMessage has written to a participant whose ID is in another room
\* too, there with a connection of its own
C37_Witness ==
    /\ Signalled
    /\ \E i \in DOMAIN writes :
           \E roomID \in DOMAIN Rooms \ {call.roomID} :
               /\ writes[i].userID \in DOMAIN UsersOf(roomID)
               /\ UsersOf(roomID)[writes[i].userID].Conn \notin {NilConn, writes[i].Conn}

----------------------------------------------------------------------------
(* Reads of the participants of a room *)

\* goroutine g is reading the participants of a room: in JoinRoom or
\* LeaveRoom, in the loop of SignalMessage, or in the loop of GetRoomHandler
ReadsUsers(g) ==
    \/ pc[g] = "locked" /\ CurCall(g).op \in {"JoinRoom", "LeaveRoom"}
    \/ pc[g] \in {"loop", "writing"}
    \/ Listing(g)

\* C32: a goroutine that reads the participants of a room holds the mutex,
\* and no JoinRoom or LeaveRoom has written the map since the read began
C32_ReadsUnderLock ==
    \A g \in Goroutines :
        ReadsUsers(g) => Holds(g) /\ ~loc[g].raced

====
